---- MODULE Spec2Model ----
(***************************************************************************)
(* Model of generate-graphql-query-stubs:                                  *)
(*   - package jsonschemastub: Generate and its helpers, which synthesize  *)
(*     a value from a JSON Schema held as a Go map[string]any;             *)
(*   - package graphqlschema: BuildSchema, selectionSetToSchema, inferType *)
(*     and isListField, which build a JSON Schema from a parsed query.     *)
(*                                                                         *)
(* Go values of dynamic type (`any`) are records [kind, val]; kind is the  *)
(* dynamic type a type assertion tests.  A float64 is held in fixed point, *)
(* as a whole number of 1/Scale.  A Go map is a function on strings.  A    *)
(* function that draws from math/rand is the set of results it can         *)
(* produce; a run-time panic is the result Panic.                          *)
(***************************************************************************)
EXTENDS Integers, Sequences, FiniteSets, TLC

(* ---------------------------------------------------------------------- *)
(* Bounds of the model                                                     *)
(* ---------------------------------------------------------------------- *)

\* a float64 is a whole number of 1/Scale; Fine is the number of such steps
\* in 1/100, the precision randFloat rounds to
Fine == 10
Scale == 100 * Fine
\* rand.Float64 draws one of the Grid points j/Grid, 0 <= j < Grid
Grid == 4
\* the numeric schema fields minimum, maximum, minItems and maxItems range
\* over the whole numbers -1 .. MaxNum (and the other values of Bounds)
MaxNum == 3
\* a caller makes at most MaxCalls calls on the inputs it holds
MaxCalls == 3
\* the number of goroutines that call Generate concurrently
NProcs == 2

(* ---------------------------------------------------------------------- *)
(* Go values                                                               *)
(* ---------------------------------------------------------------------- *)

Nil == [kind |-> "nil", val |-> 0]
Panic == [kind |-> "panic", val |-> 0]
StrV(s) == [kind |-> "string", val |-> s]
IntV(i) == [kind |-> "int", val |-> i]
\* a float64 given in units of 1/Scale
FloatV(u) == [kind |-> "float64", val |-> u]
\* the float64 of a whole number, as encoding/json yields for 10
NumV(n) == FloatV(n * Scale)
BoolV(b) == [kind |-> "bool", val |-> b]
SliceV(s) == [kind |-> "slice", val |-> s]
MapV(m) == [kind |-> "map", val |-> m]
EmptyMap == MapV(<<>>)

\* v, ok := m[key].(T): the key is bound to a value of dynamic type T
Is(m, key, kind) == key \in DOMAIN m /\ m[key].kind = kind

\* a conversion that rounds down instead of toward zero
toIntFloor(u) == u \div Scale

\* int(v) of a float64: truncation toward zero
toInt(u) == IF u >= 0 THEN u \div Scale ELSE -((-u) \div Scale)

(* ---------------------------------------------------------------------- *)
(* package jsonschemastub                                                  *)
(* ---------------------------------------------------------------------- *)

words == << "azure", "blaze", "cedar", "dusk", "ember", "frost", "gale", "haze",
            "iris", "jade", "kite", "lark", "mist", "nova", "onyx", "pine",
            "quill", "rune", "sage", "thorn", "umber", "vale", "wren", "zeal" >>

\* rand.Intn(n): panics when n <= 0, otherwise any of 0 .. n-1
randIntn(n) == IF n <= 0 THEN {Panic} ELSE {IntV(i) : i \in 0 .. (n - 1)}

\* arr[rand.Intn(len(arr))]: panics on an empty slice
index(arr) ==
  {IF i.kind = "panic" THEN Panic ELSE arr[i.val + 1] : i \in randIntn(Len(arr))}

\* only ever called on words, which is not empty
pick(arr) == {arr[i.val + 1] : i \in randIntn(Len(arr)) \ {Panic}}

randInt(min, max) ==
  {IF r.kind = "panic" THEN Panic ELSE IntV(r.val + min) :
     r \in randIntn(max - min + 1)}

\* strconv.ParseFloat(fmt.Sprintf("%.2f", v)) for v = x / (Scale * Grid):
\* the nearest multiple of 1/100; at an exact decimal tie the binary value of
\* v decides the direction, so both neighbours are results
round2(x) ==
  LET step == Fine * Grid
      q == x \div step
      rem == x - (q * step)
  IN IF 2 * rem < step THEN {q * Fine}
     ELSE IF 2 * rem > step THEN {(q + 1) * Fine}
     ELSE {q * Fine, (q + 1) * Fine}

\* rand.Float64()*(max-min) + min, rounded to two decimals
randFloat(min, max) ==
  {FloatV(f) : f \in UNION {round2((j * (max - min)) + (min * Grid)) :
                              j \in 0 .. (Grid - 1)}}

\* a string generator that gives a date-time the literal of a date
generateStringDateOnly(schema) ==
  IF Is(schema, "enum", "slice")
  THEN {IF e.kind = "string" THEN e ELSE Panic : e \in index(schema["enum"].val)}
  ELSE LET format == IF Is(schema, "format", "string")
                     THEN schema["format"].val ELSE ""
       IN CASE format \in {"date", "date-time"} -> {StrV("2024-01-01")}
            [] format = "email" -> {StrV(w \o "@example.com") : w \in pick(words)}
            [] format = "uri" -> {StrV("https://example.com/" \o w) : w \in pick(words)}
            [] OTHER -> {StrV(w1 \o "-" \o w2) : w1 \in pick(words), w2 \in pick(words)}

generateString(schema) ==
  IF Is(schema, "enum", "slice")
  THEN {IF e.kind = "string" THEN e ELSE Panic : e \in index(schema["enum"].val)}
  ELSE LET format == IF Is(schema, "format", "string")
                     THEN schema["format"].val ELSE ""
       IN CASE format = "date" -> {StrV("2024-01-01")}
            [] format = "date-time" -> {StrV("2024-01-01T00:00:00Z")}
            [] format = "email" -> {StrV(w \o "@example.com") : w \in pick(words)}
            [] format = "uri" -> {StrV("https://example.com/" \o w) : w \in pick(words)}
            [] OTHER -> {StrV(w1 \o "-" \o w2) : w1 \in pick(words), w2 \in pick(words)}

generateInteger(schema) ==
  LET min == IF Is(schema, "minimum", "float64")
             THEN toInt(schema["minimum"].val) ELSE 1
      max == IF Is(schema, "maximum", "float64")
             THEN toInt(schema["maximum"].val) ELSE 255
  IN randInt(min, max)

generateNumber(schema) ==
  LET min == IF Is(schema, "minimum", "float64")
             THEN schema["minimum"].val ELSE Scale \div 10
      max == IF Is(schema, "maximum", "float64")
             THEN schema["maximum"].val ELSE 2 * Scale
  IN randFloat(min, max)

RECURSIVE Generate(_)

\* make([]any, length) and the loop that fills it with Generate(itemSchema)
fill(length, elems) ==
  IF length.kind = "panic" \/ length.val < 0
  THEN {Panic}
  ELSE {SliceV(s) : s \in [1 .. length.val -> elems \ {Panic}]}
       \cup (IF length.val > 0 /\ Panic \in elems THEN {Panic} ELSE {})

generateArray(schema) ==
  LET itemSchema == IF Is(schema, "items", "map") THEN schema["items"] ELSE EmptyMap
      minItems == IF Is(schema, "minItems", "float64")
                  THEN toInt(schema["minItems"].val) ELSE 1
      maxItems == IF Is(schema, "maxItems", "float64")
                  THEN toInt(schema["maxItems"].val) ELSE 3
      elems == Generate(itemSchema)
  IN UNION {fill(length, elems) : length \in randInt(minItems, maxItems)}

\* the results of the loop over the keys of properties that remain
RECURSIVE bind(_, _)
bind(properties, keys) ==
  IF keys = {}
  THEN {<<>>}
  ELSE LET key == CHOOSE k \in keys : TRUE
           rest == bind(properties, keys \ {key})
       IN IF properties[key].kind = "map"
          THEN {(key :> v) @@ r :
                  v \in Generate(properties[key]) \ {Panic}, r \in rest}
          ELSE rest

\* an object generator that leaves out any of the properties
generateObjectSparse(schema) ==
  IF ~Is(schema, "properties", "map")
  THEN {EmptyMap}
  ELSE LET properties == schema["properties"].val
       IN {MapV([key \in kept |-> r[key]]) :
             r \in bind(properties, DOMAIN properties),
             kept \in SUBSET {key \in DOMAIN properties : properties[key].kind = "map"}}
          \cup (IF \E key \in DOMAIN properties :
                     /\ properties[key].kind = "map"
                     /\ Panic \in Generate(properties[key])
                THEN {Panic} ELSE {})

generateObject(schema) ==
  IF ~Is(schema, "properties", "map")
  THEN {EmptyMap}
  ELSE LET properties == schema["properties"].val
       IN {MapV(r) : r \in bind(properties, DOMAIN properties)}
          \cup (IF \E key \in DOMAIN properties :
                     /\ properties[key].kind = "map"
                     /\ Panic \in Generate(properties[key])
                THEN {Panic} ELSE {})

\* the first member of a union that is a string other than "null", or ""
RECURSIVE firstNonNull(_)
firstNonNull(v) ==
  IF v = <<>> THEN ""
  ELSE IF Head(v).kind = "string" /\ Head(v).val # "null" THEN Head(v).val
  ELSE firstNonNull(Tail(v))

\* a resolution that takes the first member of a union, "null" or not
effectiveTypeFirst(schema) ==
  IF Is(schema, "type", "string") THEN schema["type"].val
  ELSE IF Is(schema, "type", "slice") /\ Len(schema["type"].val) > 0
          /\ schema["type"].val[1].kind = "string"
  THEN schema["type"].val[1].val
  ELSE ""

\* the switch on schema["type"] that sets t
effectiveType(schema) ==
  IF Is(schema, "type", "string") THEN schema["type"].val
  ELSE IF Is(schema, "type", "slice")
  THEN LET v == schema["type"].val
           t == firstNonNull(v)
       IN IF t = "" /\ Len(v) > 0
          THEN (IF v[1].kind = "string" THEN v[1].val ELSE "")
          ELSE t
  ELSE ""

\* a switch whose default case synthesizes a string
dispatchDefaultString(t, schema) ==
  CASE t = "object" -> generateObject(schema)
    [] t = "array" -> generateArray(schema)
    [] t = "string" -> generateString(schema)
    [] t = "integer" -> generateInteger(schema)
    [] t = "number" -> generateNumber(schema)
    [] t = "boolean" -> {BoolV(TRUE), BoolV(FALSE)}
    [] t = "null" -> {Nil}
    [] OTHER -> generateString(schema)

\* the switch on t
dispatch(t, schema) ==
  CASE t = "object" -> generateObject(schema)
    [] t = "array" -> generateArray(schema)
    [] t = "string" -> generateString(schema)
    [] t = "integer" -> generateInteger(schema)
    [] t = "number" -> generateNumber(schema)
    [] t = "boolean" -> {BoolV(TRUE), BoolV(FALSE)}
    [] t = "null" -> {Nil}
    [] OTHER -> {Nil}

\* a Generate that looks at enum only when no type is declared
GenerateTypeFirst(schema) ==
  IF schema.kind # "map"
  THEN {Nil}
  ELSE IF effectiveType(schema.val) = "" /\ Is(schema.val, "enum", "slice")
  THEN index(schema.val["enum"].val)
  ELSE dispatch(effectiveType(schema.val), schema.val)

\* a nil map is the value Nil
Generate(schema) ==
  IF schema.kind # "map"
  THEN {Nil}
  ELSE IF Is(schema.val, "enum", "slice")
  THEN index(schema.val["enum"].val)
  ELSE dispatch(effectiveType(schema.val), schema.val)

\* a generateArray that stores the default item schema into a schema
\* without items
schemaAfterStoringItems(schema) ==
  IF schema.kind = "map" /\ ~Is(schema.val, "enum", "slice")
     /\ effectiveType(schema.val) = "array" /\ ~Is(schema.val, "items", "map")
  THEN MapV(("items" :> EmptyMap) @@ schema.val)
  ELSE schema

\* the caller's schema after Generate(schema) has run: every store of the
\* package is into a map or slice made by the call (result[i], result[key]),
\* and the default item schema is bound to a local variable only
schemaAfter(schema) == schema

(* ---------------------------------------------------------------------- *)
(* package graphqlschema                                                   *)
(* ---------------------------------------------------------------------- *)

Uppers == "ABCDEFGHIJKLMNOPQRSTUVWXYZ"
Lowers == "abcdefghijklmnopqrstuvwxyz"

\* the lower-case letter of every upper-case letter
FoldTable ==
  [c \in {SubSeq(Uppers, i, i) : i \in 1 .. Len(Uppers)} |->
     LET i == CHOOSE i \in 1 .. Len(Uppers) : SubSeq(Uppers, i, i) = c
     IN SubSeq(Lowers, i, i)]

\* the case folding of (?i) on one character of a name
foldChar(c) == IF c \in DOMAIN FoldTable THEN FoldTable[c] ELSE c

RECURSIVE fold(_)
fold(s) == IF s = "" THEN "" ELSE foldChar(SubSeq(s, 1, 1)) \o fold(Tail(s))

\* ^p
hasPrefix(s, p) == Len(s) >= Len(p) /\ SubSeq(s, 1, Len(p)) = p
\* p$
hasSuffix(s, p) == Len(s) >= Len(p) /\ SubSeq(s, Len(s) - Len(p) + 1, Len(s)) = p
\* p anywhere
contains(s, p) ==
  \E i \in 1 .. (Len(s) - Len(p) + 1) : SubSeq(s, i, i + Len(p) - 1) = p

\* an integer pattern that finds _stat anywhere in the name
intREStatAnywhere(s) ==
  LET f == fold(s)
  IN \/ hasSuffix(f, "_id")
     \/ f = "id"
     \/ contains(f, "_stat")
     \/ \E p \in {"effort", "experience", "height", "weight", "count", "level",
                  "order", "floor", "generation", "accuracy", "power", "pp",
                  "priority", "damage", "speed", "attack", "defense"} :
          contains(f, p)
     \/ f = "hp"
     \/ \E p \in {"age", "quantity", "amount", "total", "size", "rank", "score",
                  "index", "position", "duration"} :
          contains(f, p)

intRE(s) ==
  LET f == fold(s)
  IN \/ hasSuffix(f, "_id")
     \/ f = "id"
     \/ hasSuffix(f, "_stat")
     \/ \E p \in {"effort", "experience", "height", "weight", "count", "level",
                  "order", "floor", "generation", "accuracy", "power", "pp",
                  "priority", "damage", "speed", "attack", "defense"} :
          contains(f, p)
     \/ f = "hp"
     \/ \E p \in {"age", "quantity", "amount", "total", "size", "rank", "score",
                  "index", "position", "duration"} :
          contains(f, p)

boolRE(s) ==
  LET f == fold(s)
  IN \E p \in {"is_", "has_", "can_", "show_", "enable"} : hasPrefix(f, p)

floatRE(s) ==
  LET f == fold(s)
  IN \E p \in {"rate", "ratio", "factor", "chance", "multiplier", "percent",
               "latitude", "longitude"} :
       contains(f, p)

listRE(s) ==
  \E p \in {"s", "types", "stats", "abilities", "moves", "items", "forms",
            "results", "edges", "nodes"} :
    hasSuffix(s, p)

\* a cascade that names the float pattern's type "float"
inferTypeFloat(fieldName) ==
  IF boolRE(fieldName) THEN "boolean"
  ELSE IF floatRE(fieldName) THEN "float"
  ELSE IF intRE(fieldName) THEN "integer"
  ELSE "string"

\* a cascade that tries the integer pattern first
inferTypeIntegerFirst(fieldName) ==
  IF intRE(fieldName) THEN "integer"
  ELSE IF boolRE(fieldName) THEN "boolean"
  ELSE IF floatRE(fieldName) THEN "number"
  ELSE "string"

inferType(fieldName) ==
  IF boolRE(fieldName) THEN "boolean"
  ELSE IF floatRE(fieldName) THEN "number"
  ELSE IF intRE(fieldName) THEN "integer"
  ELSE "string"

\* a list heuristic that ignores letter case
isListFieldAnyCase(fieldName) == listRE(fold(fieldName))

isListField(fieldName) == listRE(fieldName)

\* ast.Selection: a *ast.Field, or a fragment spread or inline fragment
FieldSel(name, selectionSet) ==
  [kind |-> "Field", Name |-> name, SelectionSet |-> selectionSet]
SpreadSel(name) ==
  [kind |-> "FragmentSpread", Name |-> name, SelectionSet |-> <<>>]
InlineSel(selectionSet) ==
  [kind |-> "InlineFragment", Name |-> "", SelectionSet |-> selectionSet]

\* a leaf type that takes the override of a key its path starts with
leafTypeByPrefix(name, overrides, fieldPath) ==
  LET keys == {k \in DOMAIN overrides : hasPrefix(fieldPath, k)}
  IN IF keys # {} THEN overrides[CHOOSE k \in keys : TRUE] ELSE inferType(name)

\* a leaf type that lets an override replace only the default "string"
leafTypeInferenceWins(name, overrides, fieldPath) ==
  IF fieldPath \in DOMAIN overrides /\ inferType(name) = "string"
  THEN overrides[fieldPath] ELSE inferType(name)

\* the type of a scalar leaf
leafType(name, overrides, fieldPath) ==
  IF fieldPath \in DOMAIN overrides THEN overrides[fieldPath] ELSE inferType(name)

RECURSIVE selectionSetToSchema(_, _, _)

\* a field schema that descends without the ".items" segment
fieldSchemaSamePath(field, overrides, currentPath) ==
  LET name == field.Name
      fieldPath == currentPath \o "." \o name
  IN IF Len(field.SelectionSet) > 0
     THEN LET childSchema ==
                selectionSetToSchema(field.SelectionSet, overrides, fieldPath)
          IN IF isListField(name)
             THEN MapV("type" :> StrV("array") @@ "items" :> childSchema)
             ELSE childSchema
     ELSE MapV("type" :> StrV(leafType(name, overrides, fieldPath)))

\* a field schema that wraps a list only at the top of the operation
fieldSchemaWrapsTopOnly(field, overrides, currentPath) ==
  LET name == field.Name
      fieldPath == currentPath \o "." \o name
  IN IF Len(field.SelectionSet) > 0
     THEN LET childPath == IF isListField(name) THEN fieldPath \o ".items"
                           ELSE fieldPath
              childSchema ==
                selectionSetToSchema(field.SelectionSet, overrides, childPath)
          IN IF isListField(name) /\ currentPath = "data"
             THEN MapV("type" :> StrV("array") @@ "items" :> childSchema)
             ELSE childSchema
     ELSE MapV("type" :> StrV(leafType(name, overrides, fieldPath)))

\* a field schema that looks a leaf up by its name alone, below "data"
fieldSchemaLeafNameKey(field, overrides, currentPath) ==
  LET name == field.Name
      fieldPath == currentPath \o "." \o name
  IN IF Len(field.SelectionSet) > 0
     THEN LET childPath == IF isListField(name) THEN fieldPath \o ".items"
                           ELSE fieldPath
              childSchema ==
                selectionSetToSchema(field.SelectionSet, overrides, childPath)
          IN IF isListField(name)
             THEN MapV("type" :> StrV("array") @@ "items" :> childSchema)
             ELSE childSchema
     ELSE MapV("type" :> StrV(leafType(name, overrides, "data." \o name)))

\* a field schema whose arrays say how many items they hold at least
fieldSchemaMinItems(field, overrides, currentPath) ==
  LET name == field.Name
      fieldPath == currentPath \o "." \o name
  IN IF Len(field.SelectionSet) > 0
     THEN LET childPath == IF isListField(name) THEN fieldPath \o ".items"
                           ELSE fieldPath
              childSchema ==
                selectionSetToSchema(field.SelectionSet, overrides, childPath)
          IN IF isListField(name)
             THEN MapV("type" :> StrV("array") @@ "items" :> childSchema @@
                       "minItems" :> NumV(1))
             ELSE childSchema
     ELSE MapV("type" :> StrV(leafType(name, overrides, fieldPath)))

\* a field schema that wraps a leaf of a list-like name too
fieldSchemaWrapsLeaves(field, overrides, currentPath) ==
  LET name == field.Name
      fieldPath == currentPath \o "." \o name
  IN IF Len(field.SelectionSet) > 0
     THEN LET childPath == IF isListField(name) THEN fieldPath \o ".items"
                           ELSE fieldPath
              childSchema ==
                selectionSetToSchema(field.SelectionSet, overrides, childPath)
          IN IF isListField(name)
             THEN MapV("type" :> StrV("array") @@ "items" :> childSchema)
             ELSE childSchema
     ELSE IF isListField(name)
     THEN MapV("type" :> StrV("array") @@
               "items" :> MapV("type" :> StrV(leafType(name, overrides, fieldPath))))
     ELSE MapV("type" :> StrV(leafType(name, overrides, fieldPath)))

\* the value bound to a field's name in properties
fieldSchema(field, overrides, currentPath) ==
  LET name == field.Name
      fieldPath == currentPath \o "." \o name
  IN IF Len(field.SelectionSet) > 0
     THEN LET childPath == IF isListField(name) THEN fieldPath \o ".items"
                           ELSE fieldPath
              childSchema ==
                selectionSetToSchema(field.SelectionSet, overrides, childPath)
          IN IF isListField(name)
             THEN MapV("type" :> StrV("array") @@ "items" :> childSchema)
             ELSE childSchema
     ELSE MapV("type" :> StrV(leafType(name, overrides, fieldPath)))

RECURSIVE propertiesAfter(_, _, _, _)

\* a loop that takes the fields of an inline fragment for fields of the
\* selection set around it
propertiesAfterInlining(selectionSet, overrides, currentPath, n) ==
  IF n = 0 THEN <<>>
  ELSE LET sel == selectionSet[n]
           before == propertiesAfter(selectionSet, overrides, currentPath, n - 1)
       IN IF sel.kind = "InlineFragment"
          THEN propertiesAfter(sel.SelectionSet, overrides, currentPath,
                               Len(sel.SelectionSet)) @@ before
          ELSE IF sel.kind # "Field" THEN before
          ELSE (sel.Name :> fieldSchema(sel, overrides, currentPath)) @@ before

\* a loop that keeps the first schema bound to a name
propertiesAfterKeepingFirst(selectionSet, overrides, currentPath, n) ==
  IF n = 0 THEN <<>>
  ELSE LET sel == selectionSet[n]
           before == propertiesAfter(selectionSet, overrides, currentPath, n - 1)
       IN IF sel.kind # "Field" THEN before
          ELSE before @@ (sel.Name :> fieldSchema(sel, overrides, currentPath))

\* properties after the first n selections of the loop
propertiesAfter(selectionSet, overrides, currentPath, n) ==
  IF n = 0 THEN <<>>
  ELSE LET sel == selectionSet[n]
           before == propertiesAfter(selectionSet, overrides, currentPath, n - 1)
       IN IF sel.kind # "Field" THEN before
          ELSE (sel.Name :> fieldSchema(sel, overrides, currentPath)) @@ before

selectionSetToSchema(selectionSet, overrides, currentPath) ==
  MapV("type" :> StrV("object") @@
       "properties" :> MapV(propertiesAfter(selectionSet, overrides, currentPath,
                                            Len(selectionSet))))

\* parser.ParseQuery, a library call: the source text is held as what the
\* parser makes of it, a document or an error
ParseQuery(querySource) ==
  IF querySource.err # Nil
  THEN [doc |-> Nil, err |-> querySource.err]
  ELSE [doc |-> querySource.doc, err |-> Nil]

\* a BuildSchema that binds the fields of the operation directly under the
\* envelope's properties, without the "data" level
BuildSchemaNoData(querySource, overrides) ==
  LET table == IF overrides = Nil THEN <<>> ELSE overrides.val
      parsed == ParseQuery(querySource)
  IN IF parsed.err # Nil
     THEN [schema |-> Nil, err |-> parsed.err]
     ELSE IF Len(parsed.doc.Operations) = 0
     THEN [schema |-> Nil, err |-> StrV("no operation definition found in query")]
     ELSE LET operation == parsed.doc.Operations[1]
              dataSchema == selectionSetToSchema(operation.SelectionSet, table, "data")
          IN [schema |-> MapV("$schema" :> StrV("http://json-schema.org/draft-07/schema#") @@
                              "type" :> StrV("object") @@
                              "properties" :> dataSchema.val["properties"]),
              err |-> Nil]

\* a BuildSchema that answers a document without operations with the schema
\* of an empty selection set
BuildSchemaWithoutOperation(querySource, overrides) ==
  LET table == IF overrides = Nil THEN <<>> ELSE overrides.val
      parsed == ParseQuery(querySource)
  IN IF parsed.err # Nil
     THEN [schema |-> Nil, err |-> parsed.err]
     ELSE LET selectionSet == IF Len(parsed.doc.Operations) = 0 THEN <<>>
                              ELSE parsed.doc.Operations[1].SelectionSet
              dataSchema == selectionSetToSchema(selectionSet, table, "data")
          IN [schema |-> MapV("$schema" :> StrV("http://json-schema.org/draft-07/schema#") @@
                              "type" :> StrV("object") @@
                              "properties" :> MapV("data" :> dataSchema)),
              err |-> Nil]

\* a BuildSchema that wraps the parser's error in one of its own and returns
\* an empty schema with it
BuildSchemaPartial(querySource, overrides) ==
  LET table == IF overrides = Nil THEN <<>> ELSE overrides.val
      parsed == ParseQuery(querySource)
  IN IF parsed.err # Nil
     THEN [schema |-> EmptyMap, err |-> StrV("parse: " \o parsed.err.val)]
     ELSE IF Len(parsed.doc.Operations) = 0
     THEN [schema |-> Nil, err |-> StrV("no operation definition found in query")]
     ELSE LET operation == parsed.doc.Operations[1]
              dataSchema == selectionSetToSchema(operation.SelectionSet, table, "data")
          IN [schema |-> MapV("$schema" :> StrV("http://json-schema.org/draft-07/schema#") @@
                              "type" :> StrV("object") @@
                              "properties" :> MapV("data" :> dataSchema)),
              err |-> Nil]

\* a BuildSchema that selects the last operation of the document
BuildSchemaLastOperation(querySource, overrides) ==
  LET table == IF overrides = Nil THEN <<>> ELSE overrides.val
      parsed == ParseQuery(querySource)
  IN IF parsed.err # Nil
     THEN [schema |-> Nil, err |-> parsed.err]
     ELSE IF Len(parsed.doc.Operations) = 0
     THEN [schema |-> Nil, err |-> StrV("no operation definition found in query")]
     ELSE LET operation == parsed.doc.Operations[Len(parsed.doc.Operations)]
              dataSchema == selectionSetToSchema(operation.SelectionSet, table, "data")
          IN [schema |-> MapV("$schema" :> StrV("http://json-schema.org/draft-07/schema#") @@
                              "type" :> StrV("object") @@
                              "properties" :> MapV("data" :> dataSchema)),
              err |-> Nil]

\* the pair (schema, error) returned
BuildSchema(querySource, overrides) ==
  LET table == IF overrides = Nil THEN <<>> ELSE overrides.val
      parsed == ParseQuery(querySource)
  IN IF parsed.err # Nil
     THEN [schema |-> Nil, err |-> parsed.err]
     ELSE IF Len(parsed.doc.Operations) = 0
     THEN [schema |-> Nil, err |-> StrV("no operation definition found in query")]
     ELSE LET operation == parsed.doc.Operations[1]
              dataSchema == selectionSetToSchema(operation.SelectionSet, table, "data")
          IN [schema |-> MapV("$schema" :> StrV("http://json-schema.org/draft-07/schema#") @@
                              "type" :> StrV("object") @@
                              "properties" :> MapV("data" :> dataSchema)),
              err |-> Nil]

\* the caller's table after BuildSchema(querySource, overrides) has run: a
\* nil table is replaced in the parameter only, and the table is read, at
\* overrides[fieldPath], and never stored into
overridesAfter(overrides) == overrides

(* ---------------------------------------------------------------------- *)
(* encoding/json, as package main uses it                                  *)
(* ---------------------------------------------------------------------- *)

\* the characters of keys, in the order of their bytes
ByteOrder == "$0123456789ABCDEFGHIJKLMNOPQRSTUVWXYZ_abcdefghijklmnopqrstuvwxyz"

\* the place of every character in ByteOrder
ByteRank ==
  [c \in {SubSeq(ByteOrder, i, i) : i \in 1 .. Len(ByteOrder)} |->
     CHOOSE i \in 1 .. Len(ByteOrder) : SubSeq(ByteOrder, i, i) = c]

\* a < b as strings of bytes
RECURSIVE less(_, _)
less(a, b) ==
  IF b = "" THEN FALSE
  ELSE IF a = "" THEN TRUE
  ELSE LET x == ByteRank[SubSeq(a, 1, 1)]
           y == ByteRank[SubSeq(b, 1, 1)]
       IN IF x # y THEN x < y ELSE less(Tail(a), Tail(b))

\* the keys of a map in the order json.Marshal writes them: sorted
RECURSIVE sortedKeys(_)
sortedKeys(keys) ==
  IF keys = {} THEN <<>>
  ELSE LET first == CHOOSE k \in keys : \A j \in keys \ {k} : less(k, j)
       IN <<first>> \o sortedKeys(keys \ {first})

\* a JSON text, held as the tree of its tokens: an object is the sequence
\* of its members in the order they are written
JObject(members) == [kind |-> "object", val |-> members]
JArray(elements) == [kind |-> "array", val |-> elements]
JString(s) == [kind |-> "text", val |-> s]
JNumber(u) == [kind |-> "number", val |-> u]
JBool(b) == [kind |-> "true/false", val |-> b]
JNull == [kind |-> "null", val |-> 0]

\* json.MarshalIndent of a value
RECURSIVE Marshal(_)
Marshal(v) ==
  CASE v.kind = "map" ->
         LET keys == sortedKeys(DOMAIN v.val)
         IN JObject([i \in 1 .. Len(keys) |->
                      [key |-> keys[i], value |-> Marshal(v.val[keys[i]])]])
    [] v.kind = "slice" -> JArray([i \in 1 .. Len(v.val) |-> Marshal(v.val[i])])
    [] v.kind = "string" -> JString(v.val)
    [] v.kind = "float64" -> JNumber(v.val)
    [] v.kind = "int" -> JNumber(v.val * Scale)
    [] v.kind = "bool" -> JBool(v.val)
    [] OTHER -> JNull

\* the map of the first n members of an object, a later member replacing an
\* earlier one of the same key
RECURSIVE membersAfter(_, _)

\* json.Unmarshal into a value of type any
RECURSIVE Unmarshal(_)
Unmarshal(j) ==
  CASE j.kind = "object" -> MapV(membersAfter(j.val, Len(j.val)))
    [] j.kind = "array" -> SliceV([i \in 1 .. Len(j.val) |-> Unmarshal(j.val[i])])
    [] j.kind = "text" -> StrV(j.val)
    [] j.kind = "number" -> FloatV(j.val)
    [] j.kind = "true/false" -> BoolV(j.val)
    [] OTHER -> Nil

membersAfter(members, n) ==
  IF n = 0 THEN <<>>
  ELSE (members[n].key :> Unmarshal(members[n].value)) @@ membersAfter(members, n - 1)

(* ---------------------------------------------------------------------- *)
(* The schemas Generate is called on                                       *)
(* ---------------------------------------------------------------------- *)

\* the maps that bind key to one of vals, or leave it absent
Field(key, vals) == {<<>>} \cup {key :> v : v \in vals}

\* values of minimum, maximum, minItems and maxItems: whole numbers, the
\* fractions 1.5 and -1.5, and a value of the wrong JSON kind
Bounds ==
  {NumV(n) : n \in -1 .. MaxNum}
    \cup {FloatV((3 * Scale) \div 2), FloatV(-((3 * Scale) \div 2)), StrV("x")}

Types ==
  {StrV(t) : t \in {"object", "array", "string", "integer", "number",
                     "boolean", "null", "unknown", ""}}
    \cup {SliceV(u) : u \in
            {<<>>, <<StrV("null")>>,
             <<StrV("string"), StrV("null")>>, <<StrV("null"), StrV("string")>>,
             <<StrV("null"), StrV("integer")>>, <<StrV("integer"), StrV("string")>>,
             <<StrV("null"), StrV("null"), StrV("boolean")>>,
             <<StrV(""), StrV("string")>>, <<StrV("null"), StrV(""), StrV("string")>>,
             <<NumV(5), StrV("string")>>, <<Nil, StrV("boolean")>>,
             <<StrV("null"), NumV(5)>>, <<NumV(5)>>}}
    \cup {NumV(1), Nil}

Enums ==
  {SliceV(<<StrV("a"), StrV("b"), StrV("c")>>),
   SliceV(<<NumV(7)>>),
   SliceV(<<Nil, NumV(1), StrV("x")>>),
   SliceV(<<>>),
   StrV("abc")}

Formats ==
  {StrV("date"), StrV("date-time"), StrV("email"), StrV("uri"), StrV("other"),
   NumV(1)}

\* minima and maxima that are no multiple of 1/100: 5 + 1/Scale and
\* 5 + 4/Scale, which are 5.001 and 5.004 when Scale is 1000
FineBounds == {FloatV((5 * Scale) + 1), FloatV((5 * Scale) + 4)}

\* schemas without properties or items
Leaves ==
  {MapV(t) : t \in Field("type", Types)}
    \cup {MapV(e @@ t) : e \in Field("enum", Enums),
                         t \in Field("type", {StrV("object"), StrV("array"),
                                              StrV("integer"), StrV("string"),
                                              SliceV(<<StrV("string"), StrV("null")>>)})}
    \cup {MapV(("type" :> StrV("string")) @@ f) : f \in Field("format", Formats)}
    \cup {MapV(("type" :> t) @@ lo @@ hi) :
            t \in {StrV("integer"), StrV("number"),
                   SliceV(<<StrV("null"), StrV("integer")>>)},
            lo \in Field("minimum", Bounds \cup {NumV(10)}),
            hi \in Field("maximum", Bounds \cup {NumV(10)})}
    \cup {MapV(("type" :> StrV("number")) @@ lo @@ hi) :
            lo \in Field("minimum", FineBounds \cup {NumV(5)}),
            hi \in Field("maximum", FineBounds \cup {NumV(6)})}

\* what properties and items hold below the top level: schemas with few
\* results, and values that are no schema at all
Nested ==
  {MapV("type" :> StrV("boolean")),
   MapV("type" :> SliceV(<<StrV("null"), StrV("string")>>) @@ "format" :> StrV("date")),
   MapV("type" :> StrV("integer") @@ "minimum" :> NumV(2) @@ "maximum" :> NumV(3)),
   MapV("type" :> StrV("integer") @@ "minimum" :> NumV(3) @@ "maximum" :> NumV(2)),
   MapV("enum" :> SliceV(<<StrV("a"), StrV("b")>>) @@ "type" :> StrV("integer")),
   MapV("enum" :> SliceV(<<>>)),
   MapV("type" :> StrV("unknown")),
   EmptyMap,
   MapV("type" :> StrV("object") @@
        "properties" :> MapV("k" :> MapV("enum" :> SliceV(<<NumV(7), Nil>>) @@
                                         "type" :> StrV("object")))),
   MapV("type" :> StrV("array") @@ "minItems" :> NumV(1) @@ "maxItems" :> NumV(1) @@
        "items" :> MapV("enum" :> SliceV(<<StrV("a"), StrV("b")>>) @@
                        "type" :> StrV("array"))),
   Nil, StrV("oops"), SliceV(<<>>)}

Objects ==
  {MapV(("type" :> StrV("object")) @@ p) : p \in
     Field("properties",
           {Nil, StrV("oops"), EmptyMap}
             \cup {MapV("a" :> x) : x \in Nested}
             \cup {MapV("a" :> x @@ "b" :> y) : x \in Nested, y \in Nested})}

Arrays ==
  {MapV(("type" :> StrV("array")) @@ i @@ lo @@ hi) :
     i \in Field("items", Nested),
     lo \in Field("minItems", Bounds),
     hi \in Field("maxItems", Bounds)}

Schemas == {Nil} \cup Leaves \cup Objects \cup Arrays

(* ---------------------------------------------------------------------- *)
(* The queries and override tables BuildSchema is called on                *)
(* ---------------------------------------------------------------------- *)

Leaf(name) == FieldSel(name, <<>>)

LeafNames == {"name", "is_hidden", "base_stat", "rates", "moves", "items", "id"}

\* selection sets of leaves and fragments only
InnerSets ==
  {<<Leaf("base_stat")>>, <<Leaf("items")>>, <<Leaf("name"), Leaf("is_hidden")>>,
   <<Leaf("is_hidden"), Leaf("name")>>, <<Leaf("name"), Leaf("name")>>,
   <<SpreadSel("F")>>, <<InlineSel(<<Leaf("name")>>), Leaf("id")>>}

MidFields ==
  {FieldSel(n, set) : n \in {"pokemon_v2_pokemonstats", "thing", "items"},
                      set \in InnerSets}
    \cup {Leaf(n) : n \in LeafNames}
    \cup {SpreadSel("F"), InlineSel(<<Leaf("name")>>)}

MidSets ==
  {<<x>> : x \in MidFields}
    \cup {<<x, y>> : x \in {Leaf("name"), Leaf("is_hidden"),
                           FieldSel("thing", <<Leaf("name")>>),
                           InlineSel(<<Leaf("name")>>)},
                     y \in MidFields}

TopFields ==
  {FieldSel(n, set) : n \in {"pokemons", "thing", "pokemon_v2_pokemon"},
                      set \in MidSets}
    \cup {Leaf("name"), Leaf("is_hidden"), SpreadSel("F")}

TopSets ==
  {<<x>> : x \in TopFields}
    \cup {<<Leaf(n), FieldSel(n, <<Leaf("id")>>)>> : n \in {"thing", "items"}}
    \cup {<<FieldSel(n, <<Leaf("id")>>), Leaf(n)>> : n \in {"thing", "items"}}
    \cup {<<x, y>> : x \in {Leaf("is_hidden"),
                           FieldSel("thing", <<Leaf("name")>>),
                           FieldSel("pokemons", <<Leaf("name")>>)},
                     y \in {Leaf("is_hidden"), Leaf("name"),
                            FieldSel("thing", <<Leaf("id")>>),
                            FieldSel("thing", <<Leaf("name"), Leaf("is_hidden")>>),
                            FieldSel("pokemons", <<Leaf("is_hidden")>>)}}

Operation(kind, selectionSet) == [Operation |-> kind, SelectionSet |-> selectionSet]

Documents ==
  {[Operations |-> <<Operation("query", set)>>, Fragments |-> 0] : set \in TopSets}
    \cup {[Operations |-> <<Operation(k1, <<x>>), Operation(k2, <<y>>)>>,
           Fragments |-> n] :
            k1 \in {"query", "mutation"}, k2 \in {"query", "subscription"},
            x \in {Leaf("name"), FieldSel("pokemons", <<Leaf("id")>>)},
            y \in {Leaf("rates"), FieldSel("thing", <<Leaf("id")>>),
                   FieldSel("pokemons", <<Leaf("rates")>>)},
            n \in {0, 1}}
    \cup {[Operations |-> <<>>, Fragments |-> n] : n \in {0, 1}}

\* a query source is the document the parser makes of it, or its error
Sources ==
  {[err |-> Nil, doc |-> d] : d \in Documents}
    \cup {[err |-> StrV(m), doc |-> Nil] :
            m \in {"Expected Name, found <EOF>", "Unexpected !"}}

OverrideKeys ==
  {"data.name", "data.is_hidden", "data.thing", "data.items", "data.thing.name",
   "data.thing.is_hidden", "data.thing.items.name", "data.thing.thing.name",
   "data.pokemons.name", "data.pokemons.items.name",
   "data.pokemons.items.is_hidden", "data.pokemons.items.thing.name",
   "data.pokemons.items.items.items.name",
   "data.pokemons.items.pokemon_v2_pokemonstats.items.base_stat",
   "data.pokemons.pokemon_v2_pokemonstats.base_stat",
   "data.pokemon_v2_pokemon.name", "thing.name", "name"}

\* nil, the empty table, and tables of one or two entries
OverrideTables ==
  {Nil, EmptyMap}
    \cup {MapV(k :> t) : k \in OverrideKeys, t \in {"string", "integer", "any"}}
    \cup {MapV(k1 :> "number" @@ k2 :> "boolean") :
            k1 \in {"data.thing.name", "data.pokemons.items.name"},
            k2 \in {"data.thing.is_hidden", "data.pokemons.items.is_hidden",
                    "data.pokemons.name"}}

\* the tables the schema subcommand reads from an overrides file: the empty
\* table when no file is named
FileTables == {EmptyMap, MapV("data.name" :> "integer")}

\* the queries and tables of the pipe `schema query.graphql | stub`: leaves
\* of every inferred type, an object field, list fields, a list below a
\* list, a field selected twice and a selection set of a fragment only
PipeSets ==
  {<<Leaf("name")>>,
   <<Leaf("id"), FieldSel("thing", <<Leaf("is_hidden")>>)>>,
   <<FieldSel("moves", <<Leaf("is_hidden"), Leaf("is_hidden")>>)>>,
   <<FieldSel("thing", <<Leaf("rates")>>)>>,
   <<FieldSel("thing", <<SpreadSel("F")>>), Leaf("is_hidden")>>,
   <<FieldSel("pokemons", <<FieldSel("moves", <<Leaf("is_hidden")>>)>>)>>}

PipeSources ==
  {[err |-> Nil, doc |-> [Operations |-> <<Operation("query", set)>>, Fragments |-> 0]] :
     set \in PipeSets}
    \cup {[err |-> StrV("Unexpected !"), doc |-> Nil]}

PipeTables ==
  {EmptyMap,
   MapV("data.name" :> "integer" @@ "data.id" :> "boolean" @@
        "data.thing.is_hidden" :> "string" @@ "data.thing.rates" :> "number" @@
        "data.moves.items.is_hidden" :> "boolean")}

\* the field names inferType and isListField are called on
FieldNames ==
  {p \o c \o x :
     p \in {"", "is_", "has_", "can_", "show_", "enable", "IS_", "Has_", "is",
            "this_", "x"},
     c \in {"", "name", "count", "COUNT", "rate", "Ratio", "damage", "id", "hp",
            "stat", "pp", "page", "slug", "hidden"},
     x \in {"", "_id", "_ID", "_stat", "_stats", "s", "S"}}
    \cup {"damage_ratio", "success_rate", "base_experience", "pokemon_v2_pokemon",
          "pokemon_v2_pokemonstats", "edges", "nodes", "moves", "items",
          "pokemon_v2_stat", "pokemon_v2_type", "types", "stats", "abilities",
          "forms", "results", "EDGES", "Items", "type"}

(* ---------------------------------------------------------------------- *)
(* The calls                                                               *)
(* ---------------------------------------------------------------------- *)

VARIABLES
  op,           \* the call that has just returned, or "idle"
  schema,       \* Generate: the schema passed
  result,       \* Generate: the value returned, or Panic
  querySource,  \* BuildSchema: the query passed
  overrides,    \* BuildSchema: the overrides table passed
  built,        \* BuildSchema: the schema and the error returned
  fieldName,    \* inferType, isListField: the name passed
  verdict,      \* inferType, isListField: the value returned
  out,          \* runSchema: the JSON text printed, JNull when none is
  given,        \* a caller making several calls: the inputs as it built them
  calls,        \* a caller making several calls: the calls made so far
  procs,        \* concurrent calls: the state of every goroutine
  source        \* concurrent calls: the values drawn from the global source

\* the variables of a caller making several calls, and of concurrent calls
heldVars == <<given, calls>>
goVars == <<procs, source>>
\* the variables of a single call
callVars == <<op, schema, result, querySource, overrides, built, fieldName,
              verdict, out>>

vars == <<op, schema, result, querySource, overrides, built, fieldName, verdict,
          out, heldVars, goVars>>

NoSource == [err |-> Nil, doc |-> Nil]
NoneBuilt == [schema |-> Nil, err |-> Nil]
NoInputs == [schema |-> Nil, querySource |-> NoSource, overrides |-> Nil]
\* a goroutine that has not called Generate yet
Ready == [pc |-> "ready", given |-> Nil, schema |-> Nil, result |-> Nil, draws |-> 0]

Init ==
  /\ op = "idle"
  /\ schema = Nil
  /\ result = Nil
  /\ querySource = NoSource
  /\ overrides = Nil
  /\ built = NoneBuilt
  /\ fieldName = ""
  /\ verdict = Nil
  /\ out = JNull
  /\ given = NoInputs
  /\ calls = 0
  /\ procs = <<>>
  /\ source = 0

GenerateCall ==
  /\ op = "idle"
  /\ \E s \in Schemas :
       \E r \in Generate(s) :
         /\ op' = "Generate"
         /\ schema' = s
         /\ result' = r
  /\ UNCHANGED <<querySource, overrides, built, fieldName, verdict, out, heldVars, goVars>>

BuildSchemaCall ==
  /\ op = "idle"
  /\ \E q \in Sources :
       \E o \in OverrideTables :
         /\ op' = "BuildSchema"
         /\ querySource' = q
         /\ overrides' = o
         /\ built' = BuildSchema(q, o)
  /\ UNCHANGED <<schema, result, fieldName, verdict, out, heldVars, goVars>>

InferTypeCall ==
  /\ op = "idle"
  /\ \E n \in FieldNames :
       /\ op' = "inferType"
       /\ fieldName' = n
       /\ verdict' = StrV(inferType(n))
  /\ UNCHANGED <<schema, result, querySource, overrides, built, out, heldVars, goVars>>

IsListFieldCall ==
  /\ op = "idle"
  /\ \E n \in FieldNames :
       /\ op' = "isListField"
       /\ fieldName' = n
       /\ verdict' = BoolV(isListField(n))
  /\ UNCHANGED <<schema, result, querySource, overrides, built, out, heldVars, goVars>>

Return ==
  /\ op # "idle"
  /\ op' = "idle"
  /\ schema' = Nil
  /\ result' = Nil
  /\ querySource' = NoSource
  /\ overrides' = Nil
  /\ built' = NoneBuilt
  /\ fieldName' = ""
  /\ verdict' = Nil
  /\ out' = JNull
  /\ UNCHANGED <<heldVars, goVars>>

\* the schema subcommand: the overrides come from a file or are the empty
\* table, and the schema is printed unless BuildSchema fails
RunSchemaCall ==
  /\ op = "idle"
  /\ \E q \in Sources :
       \E o \in FileTables :
         /\ op' = "runSchema"
         /\ querySource' = q
         /\ overrides' = o
         /\ built' = BuildSchema(q, o)
         /\ out' = IF BuildSchema(q, o).err # Nil THEN JNull
                   ELSE Marshal(BuildSchema(q, o).schema)
  /\ UNCHANGED <<schema, result, fieldName, verdict, heldVars, goVars>>

\* the pipe `schema query.graphql | stub`: the stub subcommand reads what the
\* schema subcommand printed, decodes it and calls Generate on it; when the
\* schema subcommand fails nothing is printed and the stub subcommand fails
\* on the empty input
PipeCall ==
  /\ op = "idle"
  /\ \E q \in PipeSources :
       \E o \in PipeTables :
         LET b == BuildSchema(q, o)
             printed == IF b.err # Nil THEN JNull ELSE Marshal(b.schema)
             read == IF b.err # Nil THEN Nil ELSE Unmarshal(printed)
         IN /\ op' = "pipe"
            /\ querySource' = q
            /\ overrides' = o
            /\ built' = b
            /\ out' = printed
            /\ schema' = read
            /\ \E r \in (IF b.err # Nil THEN {Nil} ELSE Generate(read)) :
                 result' = r
  /\ UNCHANGED <<fieldName, verdict, heldVars, goVars>>

Next ==
  \/ GenerateCall
  \/ BuildSchemaCall
  \/ RunSchemaCall
  \/ PipeCall
  \/ InferTypeCall
  \/ IsListFieldCall
  \/ Return

Spec == Init /\ [][Next]_vars

(* ---------------------------------------------------------------------- *)
(* A caller that makes several calls on the inputs it holds                *)
(* ---------------------------------------------------------------------- *)

\* schemas, queries and tables a caller holds on to
HeldSchemas ==
  {Nil,
   MapV("type" :> StrV("array")),
   MapV("type" :> StrV("object")),
   MapV("type" :> StrV("array") @@ "minItems" :> NumV(1) @@ "maxItems" :> NumV(2) @@
        "items" :> MapV("type" :> StrV("object") @@
                        "properties" :> MapV("a" :> MapV("type" :> StrV("boolean"))))),
   MapV("type" :> StrV("object") @@
        "properties" :> MapV("a" :> MapV("type" :> StrV("array") @@
                                         "maxItems" :> NumV(1)) @@
                             "b" :> Nil)),
   MapV("enum" :> SliceV(<<>>))}

HeldSources ==
  {[err |-> Nil,
    doc |-> [Operations |-> <<Operation("query", <<FieldSel("thing", <<Leaf("name")>>)>>)>>,
             Fragments |-> 0]],
   [err |-> Nil, doc |-> [Operations |-> <<>>, Fragments |-> 1]],
   [err |-> StrV("Unexpected !"), doc |-> Nil]}

HeldTables == {Nil, EmptyMap, MapV("data.thing.name" :> "integer")}

InitCalls ==
  /\ op = "idle"
  /\ schema \in HeldSchemas
  /\ querySource \in HeldSources
  /\ overrides \in HeldTables
  /\ given = [schema |-> schema, querySource |-> querySource, overrides |-> overrides]
  /\ calls = 0
  /\ result = Nil
  /\ built = NoneBuilt
  /\ fieldName = ""
  /\ verdict = Nil
  /\ out = JNull
  /\ procs = <<>>
  /\ source = 0

\* one more Generate on the schema held; a panic ends the caller
GenerateAgain ==
  /\ op # "panicked"
  /\ calls < MaxCalls
  /\ \E r \in Generate(schema) :
       /\ result' = r
       /\ op' = IF r = Panic THEN "panicked" ELSE "Generate"
  /\ schema' = schemaAfter(schema)
  /\ calls' = calls + 1
  /\ UNCHANGED <<querySource, overrides, built, fieldName, verdict, out, given, goVars>>

\* one more BuildSchema on the query and the table held
BuildSchemaAgain ==
  /\ op # "panicked"
  /\ calls < MaxCalls
  /\ built' = BuildSchema(querySource, overrides)
  /\ overrides' = overridesAfter(overrides)
  /\ op' = "BuildSchema"
  /\ calls' = calls + 1
  /\ UNCHANGED <<schema, result, querySource, fieldName, verdict, out, given, goVars>>

NextCalls ==
  \/ GenerateAgain
  \/ BuildSchemaAgain

SpecCalls == InitCalls /\ [][NextCalls]_vars

(* ---------------------------------------------------------------------- *)
(* Generate called from several goroutines                                 *)
(* ---------------------------------------------------------------------- *)

\* the number of values the call Generate(node) takes from the global
\* source of math/rand on the way to the result r
RECURSIVE drawsFor(_, _)
drawsFor(node, r) ==
  LET RECURSIVE sumProps(_)
      sumProps(keys) ==
        IF keys = {} THEN 0
        ELSE LET k == CHOOSE x \in keys : TRUE
             IN drawsFor(node.val["properties"].val[k], r.val[k])
                  + sumProps(keys \ {k})
      RECURSIVE sumItems(_)
      sumItems(n) ==
        IF n = 0 THEN 0
        ELSE drawsFor(IF Is(node.val, "items", "map")
                      THEN node.val["items"] ELSE EmptyMap, r.val[n])
               + sumItems(n - 1)
  IN IF node.kind # "map" THEN 0
     ELSE IF Is(node.val, "enum", "slice") THEN 1
     ELSE LET t == effectiveType(node.val)
          IN CASE t = "object" ->
                    IF Is(node.val, "properties", "map")
                    THEN sumProps({k \in DOMAIN node.val["properties"].val :
                                     node.val["properties"].val[k].kind = "map"})
                    ELSE 0
               [] t = "array" -> 1 + sumItems(Len(r.val))
               [] t = "string" ->
                    IF Is(node.val, "format", "string")
                       /\ node.val["format"].val \in {"date", "date-time"}
                    THEN 0
                    ELSE IF Is(node.val, "format", "string")
                            /\ node.val["format"].val \in {"email", "uri"}
                    THEN 1
                    ELSE 2
               [] t \in {"integer", "number", "boolean"} -> 1
               [] OTHER -> 0

\* the schemas the goroutines are started on
GoSchemas ==
  {Nil,
   MapV("enum" :> SliceV(<<>>)),
   MapV("type" :> StrV("boolean")),
   MapV("type" :> StrV("string") @@ "format" :> StrV("date")),
   MapV("type" :> StrV("array") @@ "items" :> MapV("type" :> StrV("boolean")))}

InitConcurrent ==
  /\ op = "idle"
  /\ schema = Nil
  /\ result = Nil
  /\ querySource = NoSource
  /\ overrides = Nil
  /\ built = NoneBuilt
  /\ fieldName = ""
  /\ verdict = Nil
  /\ out = JNull
  /\ given = NoInputs
  /\ calls = 0
  /\ procs = [i \in 1 .. NProcs |-> Ready]
  /\ source = 0

\* no goroutine has panicked: an unrecovered panic ends the program
Alive == \A j \in DOMAIN procs : procs[j].pc # "panicked"

\* go func() { Generate(s) }(): goroutine i enters Generate
Go(i) ==
  /\ Alive
  /\ procs[i].pc = "ready"
  /\ \E s \in GoSchemas :
       procs' = [procs EXCEPT ![i] = [pc |-> "running", given |-> s, schema |-> s,
                                      result |-> Nil, draws |-> 0]]
  /\ UNCHANGED <<source, callVars, heldVars>>

\* goroutine i takes one value from the global source, which math/rand
\* guards with a lock
Draw(i) ==
  /\ Alive
  /\ procs[i].pc = "running"
  /\ \E r \in Generate(procs[i].schema) \ {Panic} :
       drawsFor(procs[i].schema, r) > procs[i].draws
  /\ procs' = [procs EXCEPT ![i].draws = @ + 1]
  /\ source' = source + 1
  /\ UNCHANGED <<callVars, heldVars>>

\* goroutine i returns from Generate with a result its draws lead to
Finish(i) ==
  /\ Alive
  /\ procs[i].pc = "running"
  /\ \E r \in Generate(procs[i].schema) \ {Panic} :
       /\ drawsFor(procs[i].schema, r) = procs[i].draws
       /\ procs' = [procs EXCEPT ![i].pc = "returned",
                                 ![i].result = r,
                                 ![i].schema = schemaAfter(procs[i].schema)]
  /\ UNCHANGED <<source, callVars, heldVars>>

\* goroutine i panics inside Generate; nothing recovers, the runtime ends the
\* program and with it the goroutines that have not returned
PanicIn(i) ==
  /\ Alive
  /\ procs[i].pc = "running"
  /\ Panic \in Generate(procs[i].schema)
  /\ procs' = [j \in DOMAIN procs |->
                IF j = i THEN [procs[j] EXCEPT !.pc = "panicked", !.result = Panic]
                ELSE IF procs[j].pc \in {"ready", "running"}
                THEN [procs[j] EXCEPT !.pc = "killed"]
                ELSE procs[j]]
  /\ UNCHANGED <<source, callVars, heldVars>>

NextConcurrent ==
  \E i \in 1 .. NProcs :
    \/ Go(i)
    \/ Draw(i)
    \/ Finish(i)
    \/ PanicIn(i)

SpecConcurrent == InitConcurrent /\ [][NextConcurrent]_vars

(* ---------------------------------------------------------------------- *)
(* Properties of Generate                                                  *)
(* ---------------------------------------------------------------------- *)

\* Generate has returned from a call on a schema without enum whose
\* effective type is t
Dispatched(t) ==
  /\ op = "Generate"
  /\ schema.kind = "map"
  /\ ~Is(schema.val, "enum", "slice")
  /\ effectiveType(schema.val) = t

\* the members of a slice
Members(v) == {v[i] : i \in 1 .. Len(v)}

\* C1: Generate is total: on every input it returns a value and never
\* panics.
C1_GenerateIsTotal == op = "Generate" => result # Panic

\* r is a possible result for s as far as enums go: where s declares a
\* non-empty enum r is one of its members, and otherwise the same holds of
\* every value of r synthesized from a property or from items
RECURSIVE EnumRespected(_, _)
EnumRespected(s, r) ==
  IF s.kind # "map" THEN TRUE
  ELSE IF Is(s.val, "enum", "slice")
  THEN s.val["enum"].val # <<>> => r \in Members(s.val["enum"].val)
  ELSE /\ (r.kind = "map" /\ Is(s.val, "properties", "map")) =>
            \A key \in DOMAIN r.val \cap DOMAIN s.val["properties"].val :
              EnumRespected(s.val["properties"].val[key], r.val[key])
       /\ (r.kind = "slice" /\ Is(s.val, "items", "map")) =>
            \A i \in 1 .. Len(r.val) : EnumRespected(s.val["items"], r.val[i])

\* C2: a schema node that declares an enum (a non-empty sequence), at the top
\* level or below properties or items, yields one of the enum's members,
\* whatever type the node declares.
C2_EnumWins == op = "Generate" => EnumRespected(schema, result)

\* C2 witness: a property that declares both an enum and the type integer
\* has been synthesized inside an object
C2_Witness ==
  /\ op = "Generate"
  /\ result.kind = "map"
  /\ Is(schema.val, "properties", "map")
  /\ \E key \in DOMAIN result.val :
       LET p == schema.val["properties"].val[key]
       IN /\ Is(p.val, "enum", "slice")
          /\ Is(p.val, "type", "string")
          /\ p.val["type"].val = "integer"
          /\ result.val[key] = StrV("b")

\* the union member the statement of C3 names: the first member that is not
\* the string "null", else the first member
ClaimedMember(v) ==
  LET others == {i \in 1 .. Len(v) : v[i] # StrV("null")}
  IN IF others # {} THEN v[CHOOSE i \in others : \A j \in others : i <= j]
     ELSE IF v # <<>> THEN v[1]
     ELSE Nil

\* Generate has returned from a call on a schema without enum whose type is
\* a union
OnUnion ==
  /\ op = "Generate"
  /\ schema.kind = "map"
  /\ ~Is(schema.val, "enum", "slice")
  /\ Is(schema.val, "type", "slice")

\* C3 as stated: Generate dispatches on the first member of the union that is
\* not the literal string "null" (a member that is no type name yields nil).
C3_Original ==
  OnUnion =>
    LET member == ClaimedMember(schema.val["type"].val)
    IN IF member.kind = "string"
       THEN result \in dispatch(member.val, schema.val)
       ELSE result = Nil

\* the positions of a union that hold a string other than "null"
StringMembers(v) == {i \in 1 .. Len(v) : v[i].kind = "string" /\ v[i].val # "null"}

\* C3 amended: Generate dispatches on the first member that is a string
\* other than "null", skipping members that are not strings; without such a
\* member, or when it is the empty string, the result is nil.  On
\* ["string","null"] and ["null","string"] the result is a string.
C3_UnionSkipsNull ==
  OnUnion =>
    LET v == schema.val["type"].val
        found == StringMembers(v)
        first == CHOOSE i \in found : \A j \in found : i <= j
    IN /\ IF found = {} \/ v[first].val = ""
          THEN result = Nil
          ELSE result \in dispatch(v[first].val, schema.val)
       /\ (v \in {<<StrV("string"), StrV("null")>>, <<StrV("null"), StrV("string")>>}
             => result.kind = "string")

\* C3 witness: a string was synthesized for a union whose first member is
\* the number 5 and whose second is "string"
C3_Witness ==
  /\ OnUnion
  /\ schema.val["type"].val = <<NumV(5), StrV("string")>>
  /\ result.kind = "string"

\* minimum and maximum as the statement of C4 reads them, in units of
\* 1/Scale, with the defaults 1 and 255
RawMinimum(s) == IF Is(s, "minimum", "float64") THEN s["minimum"].val ELSE Scale
RawMaximum(s) == IF Is(s, "maximum", "float64") THEN s["maximum"].val ELSE 255 * Scale

\* the whole numbers a result is compared with
Whole == -(MaxNum + 12) .. (MaxNum + 256)

\* C4 as stated: an integer schema yields an integer between minimum and
\* maximum, every integer between them is possible, and equal bounds give
\* exactly that value.
C4_Original ==
  Dispatched("integer") =>
    LET lo == RawMinimum(schema.val)
        hi == RawMaximum(schema.val)
    IN /\ result.kind = "int"
       /\ lo <= result.val * Scale
       /\ result.val * Scale <= hi
       /\ {IntV(i) : i \in {j \in Whole : lo <= j * Scale /\ j * Scale <= hi}}
            \subseteq Generate(schema)
       /\ lo = hi => result.val * Scale = lo

\* u / Scale with the fraction dropped
Truncated(u) ==
  CHOOSE i \in Whole :
    IF u >= 0 THEN i * Scale <= u /\ u < (i + 1) * Scale
              ELSE (i - 1) * Scale < u /\ u <= i * Scale

\* C4 amended: with lo the minimum truncated toward zero (1 if absent or not
\* a number) and hi the maximum truncated toward zero (255 likewise), and
\* lo <= hi, an integer schema yields an integer v with lo <= v <= hi, every
\* integer of lo..hi is a possible result and no other value is, and lo = hi
\* gives exactly that value.
C4_IntegerInTruncatedRange ==
  Dispatched("integer") =>
    LET lo == Truncated(RawMinimum(schema.val))
        hi == Truncated(RawMaximum(schema.val))
    IN lo <= hi =>
         /\ result.kind = "int"
         /\ lo <= result.val
         /\ result.val <= hi
         /\ Generate(schema) = {IntV(i) : i \in lo .. hi}
         /\ lo = hi => result = IntV(lo)

\* C4 witness: minimum 1.5 has yielded 1
C4_Witness ==
  /\ Dispatched("integer")
  /\ Is(schema.val, "minimum", "float64")
  /\ schema.val["minimum"].val = (3 * Scale) \div 2
  /\ result = IntV(1)

\* C5: an array schema yields a sequence of n values synthesized from items
\* (nil when items is absent) with minItems <= n <= maxItems, the defaults
\* being 1 and 3.
C5_ArrayLengthAndItems ==
  Dispatched("array") =>
    LET lo == IF Is(schema.val, "minItems", "float64")
              THEN schema.val["minItems"].val ELSE Scale
        hi == IF Is(schema.val, "maxItems", "float64")
              THEN schema.val["maxItems"].val ELSE 3 * Scale
        items == IF Is(schema.val, "items", "map")
                 THEN schema.val["items"] ELSE EmptyMap
    IN /\ result.kind = "slice"
       /\ lo <= Len(result.val) * Scale
       /\ Len(result.val) * Scale <= hi
       /\ \A i \in 1 .. Len(result.val) : result.val[i] \in Generate(items)
       /\ ~Is(schema.val, "items", "map") =>
            \A i \in 1 .. Len(result.val) : result.val[i] = Nil

\* C6: an object schema yields a mapping whose keys are exactly the keys of
\* properties, each bound to a value synthesized from its property schema
\* (nil when that is no object-like value); without properties the mapping
\* is empty.
C6_ObjectKeys ==
  Dispatched("object") =>
    /\ result.kind = "map"
    /\ IF Is(schema.val, "properties", "map")
       THEN LET properties == schema.val["properties"].val
            IN /\ DOMAIN result.val = DOMAIN properties
               /\ \A key \in DOMAIN properties :
                    result.val[key] \in Generate(properties[key])
       ELSE result.val = <<>>

(* ---------------------------------------------------------------------- *)
(* Properties of BuildSchema                                               *)
(* ---------------------------------------------------------------------- *)

\* BuildSchema has returned a schema
Built == op = "BuildSchema" /\ built.err = Nil

\* the selection set BuildSchema works on, and the table it consults
SelectedSet == querySource.doc.Operations[1].SelectionSet
Table == IF overrides = Nil THEN <<>> ELSE overrides.val

\* the field selections below a selection set, each with the names of the
\* fields above it; live tells that neither the field nor a field above it
\* is followed, in its selection set, by a field of the same name
RECURSIVE Occurrences(_, _, _)
Occurrences(set, above, live) ==
  UNION {IF set[i].kind # "Field" THEN {}
         ELSE LET last == \A j \in (i + 1) .. Len(set) :
                            ~(set[j].kind = "Field" /\ set[j].Name = set[i].Name)
              IN {[field |-> set[i], above |-> above, live |-> live /\ last]}
                   \cup Occurrences(set[i].SelectionSet,
                                    Append(above, set[i].Name), live /\ last) :
         i \in 1 .. Len(set)}

\* the occurrences whose schema is in the output
Live == {o \in Occurrences(SelectedSet, <<>>, TRUE) : o.live}
LiveLeaves == {o \in Live : o.field.SelectionSet = <<>>}
LiveComposites == {o \in Live : o.field.SelectionSet # <<>>}

\* the value a map binds to a key, Nil without such a binding
Get(v, key) == IF v.kind = "map" /\ key \in DOMAIN v.val THEN v.val[key] ELSE Nil

\* the schema found below an object schema by following field names,
\* stepping into items where a field on the way is an array
RECURSIVE At(_, _)
At(object, names) ==
  LET found == Get(Get(object, "properties"), Head(names))
  IN IF Len(names) = 1 THEN found
     ELSE At(IF Get(found, "type") = StrV("array") THEN Get(found, "items")
             ELSE found,
             Tail(names))

\* the schema an occurrence has in the output of BuildSchema(q, table)
SchemaOf(o, output) ==
  At(Get(Get(output, "properties"), "data"), Append(o.above, o.field.Name))

\* the path of a field below "data": every name above it, with "items" after
\* each that satisfies the list heuristic, then its own name
RECURSIVE PathKey(_, _)
PathKey(above, name) ==
  IF above = <<>> THEN "data." \o name
  ELSE LET n == Len(above)
       IN PathKey(SubSeq(above, 1, n - 1), above[n])
            \o (IF isListField(above[n]) THEN ".items." ELSE ".") \o name

\* C7: a scalar leaf has the type the overrides table gives for its full
\* path, verbatim, and otherwise the type inferred from its name; an
\* override for one leaf leaves the type of every other leaf alone.
C7_OverrideOrInference ==
  Built =>
    \A o \in LiveLeaves :
      LET key == PathKey(o.above, o.field.Name)
          type == Get(SchemaOf(o, built.schema), "type")
      IN /\ key \in DOMAIN Table => type = StrV(Table[key])
         /\ key \notin DOMAIN Table => type = StrV(inferType(o.field.Name))
         /\ \A k \in DOMAIN Table \ {key} :
              LET without == MapV([j \in DOMAIN Table \ {k} |-> Table[j]])
              IN Get(SchemaOf(o, BuildSchema(querySource, without).schema), "type")
                   = type

\* C7 witness: is_hidden carries an override to a type other than boolean
\* while its sibling name keeps the inferred type string
C7_Witness ==
  /\ Built
  /\ \E o \in LiveLeaves, sibling \in LiveLeaves :
       /\ o.field.Name = "is_hidden"
       /\ sibling.field.Name = "name"
       /\ sibling.above = o.above
       /\ PathKey(o.above, "is_hidden") \in DOMAIN Table
       /\ PathKey(o.above, "name") \notin DOMAIN Table
       /\ Get(SchemaOf(o, built.schema), "type") \notin {Nil, StrV("boolean")}
       /\ Get(SchemaOf(sibling, built.schema), "type") = StrV("string")

\* the names of the field selections of a selection set
FieldNamesOf(set) == {set[i].Name : i \in {j \in 1 .. Len(set) : set[j].kind = "Field"}}

\* s is an object schema for a selection set: type object and one property
\* per field name
IsObjectFor(s, set) ==
  /\ s.kind = "map"
  /\ DOMAIN s.val = {"type", "properties"}
  /\ s.val["type"] = StrV("object")
  /\ s.val["properties"].kind = "map"
  /\ DOMAIN s.val["properties"].val = FieldNamesOf(set)

\* the schema expected of pokemons { pokemon_v2_pokemonstats { base_stat } }
PokemonStats ==
  MapV("type" :> StrV("array") @@
       "items" :> MapV("type" :> StrV("object") @@
                       "properties" :> MapV("pokemon_v2_pokemonstats" :>
         MapV("type" :> StrV("array") @@
              "items" :> MapV("type" :> StrV("object") @@
                              "properties" :> MapV("base_stat" :>
                                MapV("type" :> StrV("integer"))))))))

\* C8: a composite field is emitted as {type: array, items: S} when its name
\* satisfies the list heuristic and as S otherwise, S being the object
\* schema of the field's own selection set, at every depth.
C8_ListWrapping ==
  Built =>
    /\ \A o \in LiveComposites :
         LET emitted == SchemaOf(o, built.schema)
         IN IF isListField(o.field.Name)
            THEN /\ emitted.kind = "map"
                 /\ DOMAIN emitted.val = {"type", "items"}
                 /\ emitted.val["type"] = StrV("array")
                 /\ IsObjectFor(emitted.val["items"], o.field.SelectionSet)
            ELSE IsObjectFor(emitted, o.field.SelectionSet)
    /\ (/\ Table = <<>>
        /\ SelectedSet = <<FieldSel("pokemons",
                            <<FieldSel("pokemon_v2_pokemonstats", <<Leaf("base_stat")>>)>>)>>)
         => Get(Get(Get(built.schema, "properties"), "data"), "properties")
              = MapV("pokemons" :> PokemonStats)

\* C8 witness: a list field below a list field, and an object field below a
\* list field
C8_Witness ==
  /\ Built
  /\ \E o \in LiveComposites :
       /\ Len(o.above) = 1
       /\ isListField(o.above[1])
       /\ isListField(o.field.Name)
       /\ Get(SchemaOf(o, built.schema), "type") = StrV("array")

\* the keys tried for a leaf: the keys of the tables, and the leaf's path
\* with no "items" segment or with one after every field above it
RECURSIVE PathWith(_, _, _)
PathWith(above, name, segment) ==
  IF above = <<>> THEN "data." \o name
  ELSE LET n == Len(above)
       IN PathWith(SubSeq(above, 1, n - 1), above[n], segment) \o segment \o name

Candidates(o) ==
  OverrideKeys
    \cup {PathKey(o.above, o.field.Name),
          PathWith(o.above, o.field.Name, "."),
          PathWith(o.above, o.field.Name, ".items.")}

SameLetter(c, d) ==
  \/ c = d
  \/ \E i \in 1 .. Len(Uppers) :
       {c, d} = {SubSeq(Uppers, i, i), SubSeq(Lowers, i, i)}

\* p occurs in s at position i, in any letter case
OccursAt(s, p, i) ==
  /\ i + Len(p) - 1 <= Len(s)
  /\ \A j \in 1 .. Len(p) : SameLetter(SubSeq(s, i + j - 1, i + j - 1), SubSeq(p, j, j))

StartsLikeBoolean(s) ==
  \E p \in {"is_", "has_", "can_", "show_", "enable"} : OccursAt(s, p, 1)

LooksLikeFloat(s) ==
  \E p \in {"rate", "ratio", "factor", "chance", "multiplier", "percent",
            "latitude", "longitude"} :
    \E i \in 1 .. Len(s) : OccursAt(s, p, i)

\* C10: inferType is a first-match cascade boolean, number, integer, string:
\* a name with a boolean prefix, in any letter case, is boolean whatever else
\* it contains; any other name with a float substring is number; only the
\* remaining names are integer or, failing that, string.
C10_InferTypeCascade ==
  op = "inferType" =>
    /\ StartsLikeBoolean(fieldName) => verdict = StrV("boolean")
    /\ (~StartsLikeBoolean(fieldName) /\ LooksLikeFloat(fieldName))
         => verdict = StrV("number")
    /\ (~StartsLikeBoolean(fieldName) /\ ~LooksLikeFloat(fieldName))
         => verdict = (IF intRE(fieldName) THEN StrV("integer") ELSE StrV("string"))
    /\ fieldName \in {"is_count", "has_rate"} => verdict = StrV("boolean")
    /\ fieldName = "damage_ratio" => verdict = StrV("number")

\* C10 witness: a name in upper case with a boolean prefix and an integer
\* substring has been classified boolean
C10_Witness ==
  /\ op = "inferType"
  /\ fieldName = "IS_COUNT"
  /\ verdict = StrV("boolean")

(* ---------------------------------------------------------------------- *)
(* Properties of what BuildSchema returns                                  *)
(* ---------------------------------------------------------------------- *)

\* the object schema of a selection set: one property per field name, the
\* last field of a name deciding, a leaf typed by type(path, name)
RECURSIVE ObjectSchemaOf(_, _, _)
ObjectSchemaOf(set, path, table) ==
  LET lastOf(name) == CHOOSE i \in 1 .. Len(set) :
                        /\ set[i].kind = "Field" /\ set[i].Name = name
                        /\ \A j \in (i + 1) .. Len(set) :
                             ~(set[j].kind = "Field" /\ set[j].Name = name)
      schemaOf(f) ==
        LET key == path \o "." \o f.Name
        IN IF f.SelectionSet = <<>>
           THEN MapV("type" :> StrV(IF key \in DOMAIN table THEN table[key]
                                    ELSE inferType(f.Name)))
           ELSE IF isListField(f.Name)
           THEN MapV("type" :> StrV("array") @@
                     "items" :> ObjectSchemaOf(f.SelectionSet, key \o ".items", table))
           ELSE ObjectSchemaOf(f.SelectionSet, key, table)
  IN MapV("type" :> StrV("object") @@
          "properties" :> MapV([name \in FieldNamesOf(set) |-> schemaOf(set[lastOf(name)])]))

\* C11: a successful BuildSchema returns a mapping with exactly the keys
\* $schema, type and properties, bound to the draft-07 URI, to "object" and
\* to a mapping with the single key data, which holds the object schema of
\* the operation's top-level selection set built from the path "data".
C11_Envelope ==
  Built =>
    /\ built.schema.kind = "map"
    /\ DOMAIN built.schema.val = {"$schema", "type", "properties"}
    /\ built.schema.val["$schema"] = StrV("http://json-schema.org/draft-07/schema#")
    /\ built.schema.val["type"] = StrV("object")
    /\ built.schema.val["properties"].kind = "map"
    /\ DOMAIN built.schema.val["properties"].val = {"data"}
    /\ built.schema.val["properties"].val["data"]
         = ObjectSchemaOf(SelectedSet, "data", Table)

\* C11 witness: an envelope whose data schema shows an override keyed from
\* the path "data"
C11_Witness ==
  /\ Built
  /\ "data.name" \in DOMAIN Table
  /\ Table["data.name"] = "any"
  /\ DOMAIN built.schema.val = {"$schema", "type", "properties"}
  /\ Get(Get(Get(Get(built.schema, "properties"), "data"), "properties"), "name")
       = MapV("type" :> StrV("any"))

\* BuildSchema has returned from a call on a source that parses and holds no
\* operation definition
NoOperation ==
  /\ op = "BuildSchema"
  /\ querySource.err = Nil
  /\ querySource.doc.Operations = <<>>

\* the message of an error says that no operation definition was found
SaysNoOperation(e) ==
  /\ e.kind = "string"
  /\ \E i \in 1 .. Len(e.val) :
       SubSeq(e.val, i, i + Len("no operation definition found") - 1)
         = "no operation definition found"

\* C12: on a document that parses and holds no operation definition, such as
\* one of fragments only, BuildSchema fails with an error whose message says
\* that no operation definition was found, whatever the overrides table.
C12_NoOperationError == NoOperation => SaysNoOperation(built.err)

\* C12 witness: a document of one fragment definition was refused under a
\* table that is not empty
C12_Witness ==
  /\ NoOperation
  /\ querySource.doc.Fragments = 1
  /\ overrides \notin {Nil, EmptyMap}
  /\ SaysNoOperation(built.err)

\* BuildSchema has returned from a call on a source the parser refuses
ParseFailure == op = "BuildSchema" /\ ParseQuery(querySource).err # Nil

\* C13: a BuildSchema call that fails, on a parse failure or for want of an
\* operation, returns no schema: the schema is nil whenever the error is not,
\* a schema comes only with a nil error, and on a parse failure the error
\* returned is the parser's own.
C13_NoPartialSchema ==
  op = "BuildSchema" =>
    /\ (ParseFailure \/ NoOperation) => built.err # Nil
    /\ built.err # Nil => built.schema = Nil
    /\ built.schema # Nil => built.err = Nil
    /\ ParseFailure => built.err = ParseQuery(querySource).err

\* C13 witness: a parse failure has returned the parser's error and no
\* schema, under a table that is not nil
C13_Witness ==
  /\ ParseFailure
  /\ overrides # Nil
  /\ built = [schema |-> Nil, err |-> StrV("Unexpected !")]

(* ---------------------------------------------------------------------- *)
(* Properties of the scalars Generate returns                              *)
(* ---------------------------------------------------------------------- *)

\* the type names Generate synthesizes a value for
Recognized == {"object", "array", "string", "integer", "number", "boolean"}

\* C14: Generate returns nil for a nil schema and, where the schema declares
\* no enum, for the type "null", for a type that is a string Generate does
\* not recognize, such as "unknown", and for a schema without a type.
C14_NilResults ==
  op = "Generate" =>
    /\ schema = Nil => result = Nil
    /\ (schema.kind = "map" /\ ~Is(schema.val, "enum", "slice")) =>
         /\ "type" \notin DOMAIN schema.val => result = Nil
         /\ Is(schema.val, "type", "string") =>
              /\ schema.val["type"].val = "null" => result = Nil
              /\ schema.val["type"].val \notin Recognized => result = Nil

\* C14 witness: the type "unknown" has yielded nil
C14_Witness ==
  /\ op = "Generate"
  /\ schema = MapV("type" :> StrV("unknown"))
  /\ result = Nil

\* the vocabulary as a set
Vocabulary == {words[i] : i \in 1 .. Len(words)}

\* C15: a schema of effective type string without enum yields "2024-01-01"
\* for the format "date", "2024-01-01T00:00:00Z" for "date-time",
\* <word>@example.com for "email", https://example.com/<word> for "uri" and
\* <word>-<word> for any other format or none, every <word> one of the 24
\* lower-case words of the vocabulary.
C15_StringFormats ==
  Dispatched("string") =>
    LET format == IF "format" \in DOMAIN schema.val THEN schema.val["format"] ELSE Nil
    IN /\ result.kind = "string"
       /\ format = StrV("date") => result.val = "2024-01-01"
       /\ format = StrV("date-time") => result.val = "2024-01-01T00:00:00Z"
       /\ format = StrV("email") =>
            \E w \in Vocabulary : result.val = w \o "@example.com"
       /\ format = StrV("uri") =>
            \E w \in Vocabulary : result.val = "https://example.com/" \o w
       /\ format \notin {StrV("date"), StrV("date-time"), StrV("email"), StrV("uri")} =>
            \E w1 \in Vocabulary, w2 \in Vocabulary : result.val = w1 \o "-" \o w2
       /\ Cardinality(Vocabulary) = 24
       /\ \A w \in Vocabulary : fold(w) = w

\* C15 witness: the format "email" has yielded an address made of the last
\* word of the vocabulary
C15_Witness ==
  /\ Dispatched("string")
  /\ Is(schema.val, "format", "string")
  /\ schema.val["format"].val = "email"
  /\ result = StrV("zeal@example.com")

\* C16: a schema of effective type number yields a value r rounded to two
\* decimal places with lo <= r <= hi, lo being the minimum (0.1 if absent)
\* and hi the maximum (2.0 if absent): rounding never takes r out of
\* [lo, hi], also for bounds finer than 0.01.  Stated for lo <= hi, where
\* the interval holds a value.
C16_NumberInRange ==
  Dispatched("number") =>
    LET lo == IF Is(schema.val, "minimum", "float64")
              THEN schema.val["minimum"].val ELSE Scale \div 10
        hi == IF Is(schema.val, "maximum", "float64")
              THEN schema.val["maximum"].val ELSE 2 * Scale
    IN lo <= hi =>
         /\ result.kind = "float64"
         /\ result.val % Fine = 0
         /\ lo <= result.val
         /\ result.val <= hi

(* ---------------------------------------------------------------------- *)
(* Two runs of Generate on one schema                                      *)
(* ---------------------------------------------------------------------- *)

\* two values have the same shape: the same kind, for mappings the same keys
\* bound to values of the same shape, for sequences values of the same shape
\* at every position both have
RECURSIVE SameShape(_, _)
SameShape(a, b) ==
  /\ a.kind = b.kind
  /\ a.kind = "map" =>
       /\ DOMAIN a.val = DOMAIN b.val
       /\ \A key \in DOMAIN a.val : SameShape(a.val[key], b.val[key])
  /\ a.kind = "slice" =>
       \A i \in 1 .. Len(a.val) : i <= Len(b.val) => SameShape(a.val[i], b.val[i])

\* the schema of a property and of the items of a schema node
PropertyOf(s, key) ==
  IF Is(s.val, "properties", "map") /\ key \in DOMAIN s.val["properties"].val
  THEN s.val["properties"].val[key] ELSE Nil
ItemsOf(s) == IF Is(s.val, "items", "map") THEN s.val["items"] ELSE EmptyMap

\* every sequence of r synthesized from an array node of s has a length
\* within minItems .. maxItems (1 and 3 by default), the two taken as they
\* are or truncated toward zero; a node with an enum is not looked into
RECURSIVE LengthsWithin(_, _, _)
LengthsWithin(s, r, truncated) ==
  IF s.kind # "map" \/ Is(s.val, "enum", "slice") THEN TRUE
  ELSE LET lo == IF Is(s.val, "minItems", "float64")
                 THEN s.val["minItems"].val ELSE Scale
           hi == IF Is(s.val, "maxItems", "float64")
                 THEN s.val["maxItems"].val ELSE 3 * Scale
       IN /\ r.kind = "slice" =>
               /\ IF truncated
                  THEN Truncated(lo) <= Len(r.val) /\ Len(r.val) <= Truncated(hi)
                  ELSE lo <= Len(r.val) * Scale /\ Len(r.val) * Scale <= hi
               /\ \A i \in 1 .. Len(r.val) : LengthsWithin(ItemsOf(s), r.val[i], truncated)
          /\ r.kind = "map" =>
               \A key \in DOMAIN r.val :
                 LengthsWithin(PropertyOf(s, key), r.val[key], truncated)

\* C17 as stated: the results of any two runs of Generate on one schema have
\* the same shape, the same kind of value at every corresponding position
\* and the same keys in corresponding mappings, and every sequence has a
\* length within the item-count bounds of the schema.  Read for the runs
\* that return a result.
C17_Original ==
  (op = "Generate" /\ result # Panic) =>
    /\ \A other \in Generate(schema) \ {Panic} : SameShape(result, other)
    /\ LengthsWithin(schema, result, FALSE)

\* two values have the same shape except below the nodes of s that declare
\* an enum, where both are members of the enum
RECURSIVE SameShapeUnder(_, _, _)
SameShapeUnder(s, a, b) ==
  IF s.kind = "map" /\ Is(s.val, "enum", "slice")
  THEN {a, b} \subseteq Members(s.val["enum"].val)
  ELSE /\ a.kind = b.kind
       /\ a.kind = "map" =>
            /\ DOMAIN a.val = DOMAIN b.val
            /\ \A key \in DOMAIN a.val :
                 SameShapeUnder(PropertyOf(s, key), a.val[key], b.val[key])
       /\ a.kind = "slice" =>
            \A i \in 1 .. Len(a.val) :
              i <= Len(b.val) => SameShapeUnder(ItemsOf(s), a.val[i], b.val[i])

\* C17 amended: the results of any two runs of Generate that return have the
\* same shape except below a node that declares an enum, where each is a
\* member of the enum, of whatever kind and keys; and every sequence
\* synthesized from an array node has a length between minItems and
\* maxItems truncated toward zero (1 and 3 by default).
C17_SameShapeOutsideEnums ==
  (op = "Generate" /\ result # Panic) =>
    /\ \A other \in Generate(schema) \ {Panic} : SameShapeUnder(schema, result, other)
    /\ LengthsWithin(schema, result, TRUE)

\* C17 witness: a sequence of two different integers has been returned for
\* a schema on which another run returns a sequence of another length
C17_Witness ==
  /\ op = "Generate"
  /\ result.kind = "slice"
  /\ Len(result.val) = 2
  /\ result.val[1].kind = "int"
  /\ result.val[1] # result.val[2]
  /\ \E other \in Generate(schema) \ {Panic} : Len(other.val) = 3

(* ---------------------------------------------------------------------- *)
(* The operation BuildSchema selects                                       *)
(* ---------------------------------------------------------------------- *)

\* BuildSchema has returned a schema for a document of several operations
SeveralOperations == Built /\ Len(querySource.doc.Operations) >= 2

\* the source whose document holds the first operation only
FirstAlone ==
  [err |-> Nil,
   doc |-> [Operations |-> <<querySource.doc.Operations[1]>>,
            Fragments |-> querySource.doc.Fragments]]

\* C18: of several operation definitions, of whatever kinds and with or
\* without fragment definitions beside them, BuildSchema builds the schema
\* from the selection set of the first in document order; the others add
\* nothing to the output.
C18_FirstOperation ==
  SeveralOperations =>
    LET ops == querySource.doc.Operations
        data == Get(Get(built.schema, "properties"), "data")
    IN /\ data = ObjectSchemaOf(ops[1].SelectionSet, "data", Table)
       /\ built = BuildSchema(FirstAlone, overrides)
       /\ \A i \in 2 .. Len(ops) :
            \A name \in FieldNamesOf(ops[i].SelectionSet)
                          \ FieldNamesOf(ops[1].SelectionSet) :
              name \notin DOMAIN Get(data, "properties").val

\* C18 witness: a mutation followed by a subscription, beside a fragment
\* definition; both select pokemons, and the output has the leaf of the
\* mutation
C18_Witness ==
  /\ SeveralOperations
  /\ querySource.doc.Fragments = 1
  /\ querySource.doc.Operations[1].Operation = "mutation"
  /\ querySource.doc.Operations[2].Operation = "subscription"
  /\ querySource.doc.Operations[1].SelectionSet = <<FieldSel("pokemons", <<Leaf("id")>>)>>
  /\ querySource.doc.Operations[2].SelectionSet = <<FieldSel("pokemons", <<Leaf("rates")>>)>>
  /\ DOMAIN Get(Get(SchemaOf([field |-> Leaf("pokemons"), above |-> <<>>], built.schema),
                    "items"), "properties").val = {"id"}

(* ---------------------------------------------------------------------- *)
(* Properties of isListField and of the integer pattern                    *)
(* ---------------------------------------------------------------------- *)

ListSuffixes ==
  {"s", "types", "stats", "abilities", "moves", "items", "forms", "results",
   "edges", "nodes"}

\* the last characters of s are those of p, letter case included
EndsWith(s, p) ==
  /\ Len(p) <= Len(s)
  /\ \A j \in 1 .. Len(p) :
       SubSeq(s, Len(s) - Len(p) + j, Len(s) - Len(p) + j) = SubSeq(p, j, j)

\* C19: isListField is true of the names that end with one of the suffixes
\* s, types, stats, abilities, moves, items, forms, results, edges, nodes,
\* in that letter case, and false of every other name: true of edges,
\* nodes, moves and pokemon_v2_pokemonstats, false of pokemon_v2_pokemon,
\* pokemon_v2_stat, pokemon_v2_type and name.
C19_IsListField ==
  op = "isListField" =>
    /\ verdict = BoolV(\E p \in ListSuffixes : EndsWith(fieldName, p))
    /\ fieldName \in {"edges", "nodes", "moves", "pokemon_v2_pokemonstats"}
         => verdict = BoolV(TRUE)
    /\ fieldName \in {"pokemon_v2_pokemon", "pokemon_v2_stat", "pokemon_v2_type", "name"}
         => verdict = BoolV(FALSE)

\* C19 witness: a name that ends with a suffix in upper case has been
\* answered with false
C19_Witness ==
  /\ op = "isListField"
  /\ fieldName = "EDGES"
  /\ verdict = BoolV(FALSE)

\* p ends s, is all of s, or occurs in s, in any letter case
EndsLike(s, p) == Len(p) <= Len(s) /\ OccursAt(s, p, Len(s) - Len(p) + 1)
IsLike(s, p) == Len(s) = Len(p) /\ OccursAt(s, p, 1)
HasLike(s, p) == \E i \in 1 .. Len(s) : OccursAt(s, p, i)

IntegerSubstrings ==
  {"effort", "experience", "height", "weight", "count", "level", "order",
   "floor", "generation", "accuracy", "power", "pp", "priority", "damage",
   "speed", "attack", "defense", "age", "quantity", "amount", "total", "size",
   "rank", "score", "index", "position", "duration"}

\* inferType has returned for a name without a boolean prefix and without a
\* float substring
PastBooleanAndFloat ==
  /\ op = "inferType"
  /\ ~StartsLikeBoolean(fieldName)
  /\ ~LooksLikeFloat(fieldName)

\* C20 as stated: a name without boolean prefix and float substring is
\* integer exactly when it ends with _id, is id, is hp, or contains _stat or
\* one of the integer substrings, in any letter case, and string otherwise.
C20_Original ==
  PastBooleanAndFloat =>
    verdict = IF \/ EndsLike(fieldName, "_id")
                 \/ IsLike(fieldName, "id")
                 \/ IsLike(fieldName, "hp")
                 \/ HasLike(fieldName, "_stat")
                 \/ \E p \in IntegerSubstrings : HasLike(fieldName, p)
              THEN StrV("integer") ELSE StrV("string")

\* C20 amended: a name without boolean prefix and float substring is integer
\* exactly when it ends with _id or with _stat, is id, is hp, or contains
\* one of the integer substrings, in any letter case, and string otherwise;
\* _stat inside a name, as in name_stats, does not make it integer.
C20_IntegerPattern ==
  PastBooleanAndFloat =>
    verdict = IF \/ EndsLike(fieldName, "_id")
                 \/ EndsLike(fieldName, "_stat")
                 \/ IsLike(fieldName, "id")
                 \/ IsLike(fieldName, "hp")
                 \/ \E p \in IntegerSubstrings : HasLike(fieldName, p)
              THEN StrV("integer") ELSE StrV("string")

\* C20 witness: a name with _stat before its last character has been
\* classified string
C20_Witness ==
  /\ PastBooleanAndFloat
  /\ fieldName = "name_stats"
  /\ verdict = StrV("string")

(* ---------------------------------------------------------------------- *)
(* Fragments, duplicates and leaves in the output of BuildSchema           *)
(* ---------------------------------------------------------------------- *)

\* the object node emitted for a composite field: the node itself, or its
\* items when the field is wrapped as a list
ObjectNodeOf(o) ==
  LET node == SchemaOf(o, built.schema)
  IN IF Get(node, "type") = StrV("array") THEN Get(node, "items") ELSE node

\* no selection of a selection set is a field
OnlyFragments(set) == \A i \in 1 .. Len(set) : set[i].kind # "Field"

\* C21: inline fragments and fragment spreads, at any depth, add no property:
\* the properties of an object node are those of the field selections that
\* stand directly in its selection set, and a selection set of fragments
\* only gives an object schema with empty properties, BuildSchema succeeding.
C21_FragmentsSkipped ==
  /\ (/\ op = "BuildSchema"
      /\ querySource.err = Nil
      /\ querySource.doc.Operations # <<>>
      /\ OnlyFragments(querySource.doc.Operations[1].SelectionSet))
       => /\ built.err = Nil
          /\ Get(Get(built.schema, "properties"), "data")
               = MapV("type" :> StrV("object") @@ "properties" :> EmptyMap)
  /\ Built =>
       /\ Get(Get(Get(built.schema, "properties"), "data"), "properties")
            .kind = "map"
       /\ DOMAIN Get(Get(Get(built.schema, "properties"), "data"), "properties").val
            = FieldNamesOf(SelectedSet)
       /\ \A o \in LiveComposites :
            /\ Get(ObjectNodeOf(o), "type") = StrV("object")
            /\ Get(ObjectNodeOf(o), "properties").kind = "map"
            /\ DOMAIN Get(ObjectNodeOf(o), "properties").val
                 = FieldNamesOf(o.field.SelectionSet)
            /\ OnlyFragments(o.field.SelectionSet)
                 => Get(ObjectNodeOf(o), "properties") = EmptyMap

\* C21 witness: below a field, an inline fragment that selects name stands
\* beside the field id, and the object node has the property id alone
C21_Witness ==
  /\ Built
  /\ \E o \in LiveComposites :
       /\ o.field.SelectionSet = <<InlineSel(<<Leaf("name")>>), Leaf("id")>>
       /\ DOMAIN Get(ObjectNodeOf(o), "properties").val = {"id"}

(* ---------------------------------------------------------------------- *)
(* The schema as the schema subcommand prints it                           *)
(* ---------------------------------------------------------------------- *)

\* the keys of a JSON object in the order they are written, and the value
\* written for a key
JKeys(j) == IF j.kind = "object" THEN [i \in 1 .. Len(j.val) |-> j.val[i].key] ELSE <<>>
JMember(j, key) ==
  IF j.kind = "object" /\ \E i \in 1 .. Len(j.val) : j.val[i].key = key
  THEN j.val[CHOOSE i \in 1 .. Len(j.val) : j.val[i].key = key].value
  ELSE JNull

\* the names of the fields of a selection set in the order in which they
\* first appear
RECURSIVE QueryOrder(_)
QueryOrder(set) ==
  IF set = <<>> THEN <<>>
  ELSE LET rest == QueryOrder(SubSeq(set, 1, Len(set) - 1))
           last == set[Len(set)]
       IN IF last.kind # "Field" \/ \E i \in 1 .. Len(rest) : rest[i] = last.Name
          THEN rest ELSE Append(rest, last.Name)

\* the object node j, printed for a selection set, and every object node
\* below it list their properties in query order
RECURSIVE OrderKept(_, _)
OrderKept(j, set) ==
  /\ JKeys(JMember(j, "properties")) = QueryOrder(set)
  /\ \A i \in 1 .. Len(set) :
       (/\ set[i].kind = "Field"
        /\ set[i].SelectionSet # <<>>
        /\ \A k \in (i + 1) .. Len(set) :
             ~(set[k].kind = "Field" /\ set[k].Name = set[i].Name))
         => LET node == JMember(JMember(j, "properties"), set[i].Name)
            IN OrderKept(IF JMember(node, "type") = JString("array")
                         THEN JMember(node, "items") ELSE node,
                         set[i].SelectionSet)

\* the schema subcommand has printed a schema
Printed == op = "runSchema" /\ built.err = Nil

\* C22: the properties of every object node BuildSchema emits keep the order
\* in which the fields appear in the query: serializing the schema lists
\* the field names in query order.
C22_PropertyOrder ==
  Printed => OrderKept(JMember(JMember(out, "properties"), "data"), SelectedSet)

(* ---------------------------------------------------------------------- *)
(* The inputs after the calls                                              *)
(* ---------------------------------------------------------------------- *)

C25_ConcurrentCalls ==
  \A i \in DOMAIN procs :
    /\ procs[i].pc \notin {"panicked", "killed"}
    /\ procs[i].pc = "returned" =>
         /\ procs[i].result \in Generate(procs[i].given) \ {Panic}
         /\ procs[i].schema = procs[i].given


\* the pipe has run on a query BuildSchema accepts
Piped == op = "pipe" /\ built.err = Nil

\* r is what the pipe returns for the selection set whose emitted object
\* schema is node: a mapping with one key per distinct field name, a list
\* field a sequence of 1 to 3 such mappings, a leaf a value of the kind its
\* emitted type names
RECURSIVE Conforms(_, _, _)
Conforms(set, node, r) ==
  LET lastOf(name) == CHOOSE i \in 1 .. Len(set) :
                        /\ set[i].kind = "Field" /\ set[i].Name = name
                        /\ \A j \in (i + 1) .. Len(set) :
                             ~(set[j].kind = "Field" /\ set[j].Name = name)
      leafOk(t, v) ==
        CASE t = StrV("string") -> v.kind = "string"
          [] t = StrV("integer") -> v.kind = "int" /\ v.val \in 1 .. 255
          [] t = StrV("number") ->
               v.kind = "float64" /\ 10 * v.val >= Scale /\ v.val <= 2 * Scale
          [] t = StrV("boolean") -> v.kind = "bool"
          [] OTHER -> FALSE
      fieldOk(f, emitted, v) ==
        IF f.SelectionSet = <<>> THEN leafOk(Get(emitted, "type"), v)
        ELSE IF isListField(f.Name)
        THEN /\ v.kind = "slice"
             /\ Len(v.val) \in 1 .. 3
             /\ \A i \in 1 .. Len(v.val) :
                  Conforms(f.SelectionSet, Get(emitted, "items"), v.val[i])
        ELSE Conforms(f.SelectionSet, emitted, v)
  IN /\ r.kind = "map"
     /\ DOMAIN r.val = FieldNamesOf(set)
     /\ \A name \in FieldNamesOf(set) :
          fieldOk(set[lastOf(name)], Get(Get(node, "properties"), name), r.val[name])

\* C26: for every query BuildSchema accepts and every overrides table of the
\* four scalar type names, Generate on the schema the pipe hands over returns
\* a mapping with exactly the key data, where every object field is a
\* mapping with one key per distinct selected field name, every list field a
\* sequence of 1 to 3 such mappings and every leaf a value of the kind its
\* emitted type names: a string, an integer in 1..255, a number in 0.1..2.0
\* or a boolean.
C26_PipeWorks ==
  Piped =>
    /\ result.kind = "map"
    /\ DOMAIN result.val = {"data"}
    /\ Conforms(SelectedSet, Get(Get(schema, "properties"), "data"),
                result.val["data"])

\* C26 witness: the pipe has returned, for a list field below a list field,
\* a sequence of three mappings whose first holds a sequence of two
C26_Witness ==
  /\ Piped
  /\ SelectedSet = <<FieldSel("pokemons", <<FieldSel("moves", <<Leaf("is_hidden")>>)>>)>>
  /\ result.kind = "map"
  /\ Get(result, "data").kind = "map"
  /\ Get(Get(result, "data"), "pokemons").kind = "slice"
  /\ Len(Get(Get(result, "data"), "pokemons").val) = 3
  /\ Get(Get(Get(result, "data"), "pokemons").val[1], "moves").kind = "slice"
  /\ Len(Get(Get(Get(result, "data"), "pokemons").val[1], "moves").val) = 2

\* the keys a schema holds besides type, properties and items
Keywords == {"enum", "format", "minimum", "maximum", "minItems", "maxItems"}

\* a node and every node below it is well formed
RECURSIVE WellFormed(_)
WellFormed(node) ==
  /\ node.kind = "map"
  /\ "type" \in DOMAIN node.val
  /\ DOMAIN node.val \cap Keywords = {}
  /\ CASE node.val["type"] = StrV("object") ->
            /\ "items" \notin DOMAIN node.val
            /\ Is(node.val, "properties", "map")
            /\ \A k \in DOMAIN node.val["properties"].val :
                 WellFormed(node.val["properties"].val[k])
       [] node.val["type"] = StrV("array") ->
            /\ "properties" \notin DOMAIN node.val
            /\ Is(node.val, "items", "map")
            /\ Get(node.val["items"], "type") = StrV("object")
            /\ WellFormed(node.val["items"])
       [] OTHER -> DOMAIN node.val = {"type"}

FieldsNamed(set, name) ==
  {i \in 1 .. Len(set) : set[i].kind = "Field" /\ set[i].Name = name}

\* in the object schema node emitted for the selection set at path, a name
\* selected more than once is bound to the schema of its last field alone,
\* and holds no sub-field that only an earlier field of the name selects
LastDecides(set, node, path) ==
  \A name \in FieldNamesOf(set) :
    LET at == FieldsNamed(set, name)
        last == CHOOSE i \in at : \A j \in at : j <= i
        entry == Get(Get(node, "properties"), name)
        below == IF Get(entry, "type") = StrV("array") THEN Get(entry, "items")
                 ELSE entry
    IN Cardinality(at) > 1 =>
         /\ name \in DOMAIN Get(node, "properties").val
         /\ entry = Get(Get(ObjectSchemaOf(<<set[last]>>, path, Table),
                            "properties"), name)
         /\ \A i \in at \ {last} :
              \A sub \in FieldNamesOf(set[i].SelectionSet)
                           \ FieldNamesOf(set[last].SelectionSet) :
                Get(Get(below, "properties"), sub) = Nil

\* C28: a field name selected more than once in one selection set has a
\* single entry in the properties mapping, the schema of its last occurrence
\* in query order; an earlier occurrence is replaced, not merged, so the
\* sub-fields only it selects are absent.
C28_LastOccurrence ==
  Built =>
    /\ LastDecides(SelectedSet, Get(Get(built.schema, "properties"), "data"), "data")
    /\ \A o \in LiveComposites :
         LET emitted == SchemaOf(o, built.schema)
             list == isListField(o.field.Name)
         IN LastDecides(o.field.SelectionSet,
                        IF list THEN Get(emitted, "items") ELSE emitted,
                        IF list THEN PathKey(o.above, o.field.Name) \o ".items"
                        ELSE PathKey(o.above, o.field.Name))

\* C28 witness: thing { name } thing { id } has been built, and thing holds
\* id and not name
C28_Witness ==
  /\ Built
  /\ SelectedSet = <<FieldSel("thing", <<Leaf("name")>>), FieldSel("thing", <<Leaf("id")>>)>>
  /\ DOMAIN Get(At(Get(Get(built.schema, "properties"), "data"), <<"thing">>),
                "properties").val = {"id"}

\* the override keys of the scalar leaves of the operation
LeafPaths ==
  {PathKey(o.above, o.field.Name) :
     o \in {x \in Occurrences(SelectedSet, <<>>, TRUE) : x.field.SelectionSet = <<>>}}

\* the table without the entries whose key is no leaf path; nil stays nil
Restricted ==
  IF overrides = Nil THEN Nil
  ELSE MapV([k \in DOMAIN overrides.val \cap LeafPaths |-> overrides.val[k]])

\* C29: override entries whose key is not the exact path of a scalar leaf of
\* the operation have no effect: BuildSchema(q, ov) returns what
\* BuildSchema(q, ov restricted to the leaf paths of q) returns, and nil
\* and the empty table give the same result.
C29_OnlyLeafPaths ==
  Built =>
    /\ built = BuildSchema(querySource, Restricted)
    /\ overrides \in {Nil, EmptyMap} =>
         /\ built = BuildSchema(querySource, Nil)
         /\ built = BuildSchema(querySource, EmptyMap)

\* C29 witness: a query with a composite field thing and the leaf name below
\* it has been built with a table whose only key is the path of thing
C29_Witness ==
  /\ Built
  /\ overrides # Nil
  /\ DOMAIN overrides.val = {"data.thing"}
  /\ "data.thing.name" \in LeafPaths
  /\ \E o \in LiveComposites : o.above = <<>> /\ o.field.Name = "thing"
  /\ Restricted = EmptyMap

\* the schema BuildSchema returns for the query with the single override
\* key |-> "marked"
Marked(key) == BuildSchema(querySource, MapV(key :> "marked")).schema

\* the names on the way to a field, its own included
NamePath(o) == Append(o.above, o.field.Name)

\* C30: the override key of a leaf determines the sequence of field names
\* that leads to it: an override entry retypes the leaf whose path it is,
\* and never two leaves at different name paths, also below a field named
\* items or below list fields, which add an .items segment.
C30_KeysInjective ==
  (Built /\ overrides = Nil) =>
    /\ \A o \in LiveLeaves :
         Get(SchemaOf(o, Marked(PathKey(o.above, o.field.Name))), "type")
           = StrV("marked")
    /\ \A key \in LeafPaths :
         \A o1, o2 \in LiveLeaves :
           (/\ Get(SchemaOf(o1, Marked(key)), "type") = StrV("marked")
            /\ Get(SchemaOf(o2, Marked(key)), "type") = StrV("marked"))
             => NamePath(o1) = NamePath(o2)

\* C30 witness: the leaf name is selected below pokemons and below items
\* within pokemons, and the key of the second, with three .items segments,
\* retypes it and not the first
C30_Witness ==
  /\ Built
  /\ overrides = Nil
  /\ \E o1, o2 \in LiveLeaves :
       /\ NamePath(o1) = <<"pokemons", "name">>
       /\ NamePath(o2) = <<"pokemons", "items", "name">>
       /\ PathKey(o2.above, o2.field.Name) = "data.pokemons.items.items.items.name"
       /\ Get(SchemaOf(o2, Marked("data.pokemons.items.items.items.name")), "type")
            = StrV("marked")
       /\ Get(SchemaOf(o1, Marked("data.pokemons.items.items.items.name")), "type")
            = StrV("string")

====
